---------------------------- MODULE Spec2Model ----------------------------
(***************************************************************************)
(* Ensemble: collaborative sheet music.  A model of the note store         *)
(* (server.js), of one browser client (app.js, editor.js,                  *)
(* beginner-renderer.js) and of the pure score functions (renderer.js).    *)
(*                                                                         *)
(* Beats are counted in thousandths of a beat (BeatUnit), so that the      *)
(* 0.001 tolerances of the code are the integer 1 and every duration       *)
(* (down to the sixteenth, 0.25 beat) is an integer.                       *)
(* A JS string that the code parses (a pitch, a VexFlow duration, a        *)
(* timestamp) is a sequence of its parts.                                  *)
(***************************************************************************)
EXTENDS Integers, Sequences, FiniteSets, Bags, TLC

VARIABLES
  \* ---- server.js: the notes table and the server's clock
  db_notes,          \* set of rows of table notes
  uuidCount,         \* how many ids randomUUID() has handed out
  clock,             \* the current instant, in ticks
  \* ---- app.js: the client's state
  booted,            \* "loading" | "ready" | "failed": position of init()
  scoreNotes,        \* scoreData.notes, the local note array
  lastFetchTime,     \* the poll watermark (ISO string), <<>> while null
  inflight,          \* bag of this client's requests and their responses
  \* ---- editor.js: NoteEditor
  placedNotes,       \* the undo stack
  borderColor,       \* editorEl.style.borderColor
  \* ---- beginner-renderer.js: BeginnerRenderer
  dragging,          \* _dragging: [noteId, originalDur, newDur] or NoDrag
  \* ---- renderer.js: one call of buildMeasureNotes
  bm_notes, bm_clef, bm_beatsPerMeasure, bm_result,
  \* ---- renderer.js: one call of displayAccidental
  da_pitch, da_keyAccidentals, da_result,
  \* ---- editor.js, beginner-renderer.js: one use of the coordinate helpers
  args,              \* what the helpers are called on
  result,            \* what they returned, NoReturn before the call
  \* ---- playback.js: PlaybackEngine and the browser around it
  pb_scoreData,      \* the scoreData handed to play()
  playing,           \* this.playing
  startTime,         \* this.startTime, ms
  startMeasure,      \* this.startMeasure
  scheduledNodes,    \* this.scheduledNodes: sequence of oscillator nodes
  mutedInstruments,  \* this.mutedInstruments
  soloInstrument,    \* this.soloInstrument, "" while null
  animFrame,         \* this._animFrame, 0 while null
  totalDuration,     \* this._totalDuration, ms
  currentTime,       \* audioCtx.currentTime, ms
  frames,            \* frame requests the browser has yet to fire
  nodesStopped,      \* nodes of the last play() that stop() has stopped
  scheduled,         \* the _scheduleNote calls of the last play()
  lastTick,          \* what onPlaybackTick was last called with
  app_currentMeasure, \* currentMeasure of app.js
  currentMode,       \* currentMode of app.js
  isOpen,            \* editor.isOpen
  ed_measure         \* editor.measure

sysvars == <<db_notes, uuidCount, clock, booted, scoreNotes, lastFetchTime,
             inflight, placedNotes, borderColor, dragging>>
bmvars == <<bm_notes, bm_clef, bm_beatsPerMeasure, bm_result>>
davars == <<da_pitch, da_keyAccidentals, da_result>>
fnvars == <<args, result>>
pbvars == <<pb_scoreData, playing, startTime, startMeasure, scheduledNodes,
            mutedInstruments, soloInstrument, animFrame, totalDuration,
            currentTime, frames, nodesStopped, scheduled, lastTick>>
navvars == <<app_currentMeasure, currentMode, isOpen, ed_measure>>
vars == <<sysvars, bmvars, davars, fnvars, pbvars, navvars>>

-----------------------------------------------------------------------------
(* Bounds of the model *)

MaxMeasureNotes == 2     \* notes handed to one buildMeasureNotes call
MaxBeatsNum == 4         \* largest beats-per-measure tried by the pure calls
MaxNotes == 3            \* notes ever created in the store
MaxSyncNotes == 2        \* notes ever created while the polling is modelled
MaxInflight == 2         \* requests of the client in flight at once
MaxClock == 5            \* the clock stops after this many ticks
TicksPerSec == 2         \* clock ticks in one second
SecsPerDay == 2          \* seconds in one (shortened) calendar day
XRes == 8                \* pointer positions across the music area
MaxPlayNotes == 2        \* notes of the score handed to play()
MaxClockSteps == 4       \* the audio clock stops after this many steps
ClockStep == 1200        \* ms the audio clock advances in one step

-----------------------------------------------------------------------------
(* JS helpers *)

BeatUnit == 1000         \* one beat, in thousandths
Epsilon == 1             \* 0.001 beat

\* a || b on numbers: undefined (modelled 0) is falsy
JsOr(a, b) == IF a = 0 THEN b ELSE a

Max(a, b) == IF a >= b THEN a ELSE b
Min(a, b) == IF a <= b THEN a ELSE b
Abs(a) == IF a >= 0 THEN a ELSE 0 - a

RECURSIVE SumSeq(_)
SumSeq(s) == IF s = <<>> THEN 0 ELSE Head(s) + SumSeq(Tail(s))

Letters == {"A", "B", "C", "D", "E", "F", "G"}
Digits == {"0", "1", "2", "3", "4", "5", "6", "7", "8", "9"}
DurationNames == {"whole", "half", "quarter", "eighth", "sixteenth"}

-----------------------------------------------------------------------------
(* renderer.js: tables and pitch helpers *)

\* Duration name -> VexFlow code; <<>> stands for undefined
DUR_TO_VEX(d) ==
  CASE d = "whole" -> <<"w">>
    [] d = "half" -> <<"h">>
    [] d = "quarter" -> <<"q">>
    [] d = "eighth" -> <<"8">>
    [] d = "sixteenth" -> <<"1", "6">>
    [] OTHER -> <<>>

\* Duration name -> beats; 0 stands for undefined
DUR_TO_BEATS(d) ==
  CASE d = "whole" -> 4 * BeatUnit
    [] d = "half" -> 2 * BeatUnit
    [] d = "quarter" -> BeatUnit
    [] d = "eighth" -> BeatUnit \div 2
    [] d = "sixteenth" -> BeatUnit \div 4
    [] OTHER -> 0

\* REST_DURATIONS without its last entry
REST_DURATIONS_NoSixteenth ==
  << <<4 * BeatUnit, <<"w">> >>, <<2 * BeatUnit, <<"h">> >>,
     <<BeatUnit, <<"q">> >>, <<BeatUnit \div 2, <<"8">> >> >>

\* Longest first, for rest filling
REST_DURATIONS ==
  << <<4 * BeatUnit, <<"w">> >>, <<2 * BeatUnit, <<"h">> >>,
     <<BeatUnit, <<"q">> >>, <<BeatUnit \div 2, <<"8">> >>,
     <<BeatUnit \div 4, <<"1", "6">> >> >>

LowerCase(c) ==
  CASE c = "A" -> "a" [] c = "B" -> "b" [] c = "C" -> "c" [] c = "D" -> "d"
    [] c = "E" -> "e" [] c = "F" -> "f" [] c = "G" -> "g" [] OTHER -> c

\* pitch.match(/^([A-G])(#|b)?(\d)$/)
MatchesPitch(pitch) ==
  \/ Len(pitch) = 2 /\ pitch[1] \in Letters /\ pitch[2] \in Digits
  \/ Len(pitch) = 3 /\ pitch[1] \in Letters /\ pitch[2] \in {"#", "b"}
       /\ pitch[3] \in Digits

\* getKeyAccidentals: map[key] || 0, the count of sharps (> 0) or flats (< 0)
KeyCount(key) ==
  CASE key = "C" -> 0 [] key = "G" -> 1 [] key = "D" -> 2 [] key = "A" -> 3
    [] key = "E" -> 4 [] key = "B" -> 5 [] key = "F#" -> 6 [] key = "C#" -> 7
    [] key = "F" -> -1 [] key = "Bb" -> -2 [] key = "Eb" -> -3
    [] key = "Ab" -> -4 [] key = "Db" -> -5 [] key = "Gb" -> -6
    [] key = "Cb" -> -7 [] OTHER -> 0

\* getKeyAccidentals with the flats taken in the order of the sharps
getKeyAccidentalsSharpOrder(key) ==
  LET sharps == <<"F", "C", "G", "D", "A", "E", "B">>
      n == KeyCount(key)
  IN  [l \in Letters |->
         IF \E i \in 1..n : sharps[i] = l THEN "#"
         ELSE IF \E i \in 1..(0 - n) : sharps[i] = l THEN "b"
         ELSE ""]

getKeyAccidentals(key) ==
  LET sharps == <<"F", "C", "G", "D", "A", "E", "B">>
      flats == <<"B", "E", "A", "D", "G", "C", "F">>
      n == KeyCount(key)
  IN  [l \in Letters |->
         IF \E i \in 1..n : sharps[i] = l THEN "#"
         ELSE IF \E i \in 1..(0 - n) : flats[i] = l THEN "b"
         ELSE ""]

\* "D5" -> "d/5"
pitchToVexKey(pitch) ==
  IF ~MatchesPitch(pitch) THEN <<"b", "/", "4">>
  ELSE <<LowerCase(pitch[1]), "/", pitch[Len(pitch)]>>

\* pitch.match(/^[A-G](#|b)?/): the accidental character, or ''
pitchAccidental(pitch) ==
  IF Len(pitch) >= 2 /\ pitch[1] \in Letters /\ pitch[2] \in {"#", "b"}
  THEN pitch[2] ELSE ""

pitchLetter(pitch) == pitch[1]

\* keyAccidentals[letter] || '' : a key map is a function on Letters whose
\* value "" stands for an absent entry
KeyAccOf(keyAccidentals, letter) ==
  IF letter \in DOMAIN keyAccidentals THEN keyAccidentals[letter] ELSE ""

\* displayAccidental without its natural-sign line
displayAccidentalNoNatural(pitch, keyAccidentals) ==
  LET acc == pitchAccidental(pitch)
      keyAcc == KeyAccOf(keyAccidentals, pitchLetter(pitch))
  IN  IF acc = keyAcc THEN "null"
      ELSE IF acc = "#" THEN "#"
      ELSE IF acc = "b" THEN "b"
      ELSE "null"

displayAccidental(pitch, keyAccidentals) ==
  LET letter == pitchLetter(pitch)
      acc == pitchAccidental(pitch)
      keyAcc == KeyAccOf(keyAccidentals, letter)
  IN  IF acc = keyAcc THEN "null"
      ELSE IF acc = "#" THEN "#"
      ELSE IF acc = "b" THEN "b"
      ELSE IF acc = "" /\ keyAcc # "" THEN "n"
      ELSE "null"

restPosition(clef) ==
  CASE clef = "treble" -> <<"b", "/", "4">>
    [] clef = "alto" -> <<"c", "/", "4">>
    [] clef = "bass" -> <<"d", "/", "3">>
    [] OTHER -> <<"b", "/", "4">>

\* new VF.StaveNote({clef, keys, duration}) with its accidental modifier
\* and _ensembleId (0: none)
StaveNote(clef, key, duration, acc, id) ==
  [clef |-> clef, keys |-> <<key>>, duration |-> duration,
   accidental |-> acc, ensembleId |-> id]

RestNote(clef, durVex) ==
  StaveNote(clef, restPosition(clef), durVex \o <<"r">>, "null", 0)

\* The while loop of pushRests testing rem > durBeats
RECURSIVE RestsOfStrict(_, _, _, _)
RestsOfStrict(rem, durBeats, durVex, clef) ==
  IF rem > durBeats
  THEN <<RestNote(clef, durVex)>>
         \o RestsOfStrict(rem - durBeats, durBeats, durVex, clef)
  ELSE <<>>

\* The while loop of pushRests for one entry of REST_DURATIONS
RECURSIVE RestsOf(_, _, _, _)
RestsOf(rem, durBeats, durVex, clef) ==
  IF rem >= durBeats - Epsilon
  THEN <<RestNote(clef, durVex)>> \o RestsOf(rem - durBeats, durBeats, durVex, clef)
  ELSE <<>>

RECURSIVE RemAfter(_, _)
RemAfter(rem, durBeats) ==
  IF rem >= durBeats - Epsilon THEN RemAfter(rem - durBeats, durBeats) ELSE rem

\* pushRests from entry i of REST_DURATIONS on: the rests pushed
RECURSIVE pushRestsFrom(_, _, _)
pushRestsFrom(i, rem, clef) ==
  IF i > Len(REST_DURATIONS) THEN <<>>
  ELSE LET durBeats == REST_DURATIONS[i][1]
           durVex == REST_DURATIONS[i][2]
       IN  RestsOf(rem, durBeats, durVex, clef)
             \o pushRestsFrom(i + 1, RemAfter(rem, durBeats), clef)

\* pushRests starting at the quarter
pushRestsFromQuarter(beats, clef) == pushRestsFrom(3, beats, clef)

pushRests(beats, clef) == pushRestsFrom(1, beats, clef)

\* [...notes].sort((a, b) => a.beat - b.beat): a stable sort
RECURSIVE InsertByBeat(_, _)
InsertByBeat(sorted, n) ==
  IF sorted = <<>> THEN <<n>>
  ELSE IF Head(sorted).beat <= n.beat
       THEN <<Head(sorted)>> \o InsertByBeat(Tail(sorted), n)
       ELSE <<n>> \o sorted

\* buildMeasureNotes taking the notes in the order given
SortByBeatAsGiven(notes) == notes

RECURSIVE SortByBeat(_)
SortByBeat(notes) ==
  IF notes = <<>> THEN <<>>
  ELSE InsertByBeat(SortByBeat(SubSeq(notes, 1, Len(notes) - 1)), notes[Len(notes)])

\* The StaveNote of one note
NoteToVex(note, clef, keyAccidentals) ==
  LET vexDur == IF DUR_TO_VEX(note.duration) = <<>> THEN <<"q">>
                ELSE DUR_TO_VEX(note.duration)
  IN  IF note.is_rest # 0
      THEN StaveNote(clef, restPosition(clef), vexDur \o <<"r">>, "null", 0)
      ELSE StaveNote(clef, pitchToVexKey(note.pitch), vexDur,
                     displayAccidental(note.pitch, keyAccidentals), note.id)

\* The for loop of buildMeasureNotes and its trailing fill
RECURSIVE BuildFrom(_, _, _, _, _)
BuildFrom(sorted, cursor, clef, keyAccidentals, beatsPerMeasure) ==
  IF sorted = <<>>
  THEN LET remaining == beatsPerMeasure - cursor + BeatUnit
       IN  IF remaining > Epsilon THEN pushRests(remaining, clef) ELSE <<>>
  ELSE LET note == Head(sorted)
           gap == note.beat > cursor + Epsilon
           cur == IF gap THEN note.beat ELSE cursor
           beats == JsOr(DUR_TO_BEATS(note.duration), BeatUnit)
       IN  (IF gap THEN pushRests(note.beat - cursor, clef) ELSE <<>>)
             \o <<NoteToVex(note, clef, keyAccidentals)>>
             \o BuildFrom(Tail(sorted), cur + beats, clef, keyAccidentals,
                          beatsPerMeasure)

\* beatsPerMeasure is in beats, as the code's beatsNum
buildMeasureNotes(notes, clef, keyAccidentals, beatsPerMeasure) ==
  BuildFrom(SortByBeat(notes), BeatUnit, clef, keyAccidentals,
            beatsPerMeasure * BeatUnit)

-----------------------------------------------------------------------------
(* Timestamps.  A timestamp string is the sequence of its fixed-width      *)
(* fields and separator characters (as character codes), so that comparing *)
(* two of them field by field is the byte comparison of the strings.       *)

DayOf(t) == t \div (TicksPerSec * SecsPerDay)
SecOfDay(t) == (t % (TicksPerSec * SecsPerDay)) \div TicksPerSec
SubSec(t) == t % TicksPerSec

CharSpace == 32
CharDot == 46
CharT == 84
CharZ == 90

\* SQLite datetime('now'): 'YYYY-MM-DD HH:MM:SS'
SqliteDatetimeNow(t) == <<DayOf(t), CharSpace, SecOfDay(t)>>

\* new Date().toISOString(): 'YYYY-MM-DDTHH:MM:SS.sssZ'
toISOString(t) == <<DayOf(t), CharT, SecOfDay(t), CharDot, SubSec(t), CharZ>>

\* a > b on TEXT values (SQLite BINARY collation: memcmp, then length)
RECURSIVE TextGreater(_, _)
TextGreater(a, b) ==
  IF a = <<>> THEN FALSE
  ELSE IF b = <<>> THEN TRUE
  ELSE IF Head(a) # Head(b) THEN Head(a) > Head(b)
  ELSE TextGreater(Tail(a), Tail(b))

-----------------------------------------------------------------------------
(* server.js: the score row, the notes table and the request handlers *)

total_measures == 32
beatsNum == 4            \* time_signature '4/4': the client's beatsNum
ThisSession == "s1"      \* SESSION_ID of the modelled client
OtherSession == "s2"     \* the session of another contributor
NoSession == "undefined" \* a request body without session_id

\* A row of table notes.  ref is 0 in the store; in the browser it tells
\* apart two objects parsed from the same row.
Row(id, body, created) ==
  [id |-> id, ref |-> 0, instrument_id |-> body.instrument_id,
   pitch |-> body.pitch, measure |-> body.measure, beat |-> body.beat,
   duration |-> body.duration,
   is_rest |-> IF body.is_rest THEN 1 ELSE 0,
   accidental |-> body.accidental, dynamic |-> body.dynamic,
   session_id |-> body.session_id, created_at |-> created]

NullNote ==
  [id |-> 0, ref |-> 0, instrument_id |-> "", pitch |-> <<>>, measure |-> 0,
   beat |-> 0, duration |-> "", is_rest |-> 0, accidental |-> "null",
   dynamic |-> "", session_id |-> "", created_at |-> <<>>]

\* The body of POST /api/notes as the clients build it
NoteData(instrument, pitch, measure, beat, duration, rest, session) ==
  [instrument_id |-> instrument, pitch |-> pitch, measure |-> measure,
   beat |-> beat, duration |-> duration, is_rest |-> rest,
   accidental |-> "null", dynamic |-> "mf", session_id |-> session]

\* ORDER BY measure, beat (rows that tie come in insertion order)
RowBefore(a, b) ==
  \/ a.measure < b.measure
  \/ a.measure = b.measure /\ a.beat < b.beat
  \/ a.measure = b.measure /\ a.beat = b.beat /\ a.id < b.id

RECURSIVE OrderRows(_)
OrderRows(rows) ==
  IF rows = {} THEN <<>>
  ELSE LET first == CHOOSE r \in rows : \A o \in rows \ {r} : RowBefore(r, o)
       IN  <<first>> \o OrderRows(rows \ {first})

\* The body express sends when a handler throws
Uncaught == "Internal Server Error"
\* The error of a DELETE that removed no row
NotFoundOrNotOwned == "Note not found or not owned by this session"

\* GET /api/score
GetScore(db) == [status |-> 200, rows |-> OrderRows(db)]

\* A measure that is a JSON string holding no number ("abc"): ToNumber gives
\* NaN, the INTEGER column keeps the text, and ORDER BY puts text after every
\* number
NaN == 999

\* a < b on JS values: false when either side is NaN
JsLess(a, b) == a # NaN /\ b # NaN /\ a < b

\* POST /api/notes; a missing session_id cannot be bound (the driver throws)
PostNotes(db, body, id, now) ==
  IF JsLess(body.measure, 1) \/ JsLess(total_measures, body.measure)
  THEN [db |-> db, status |-> 400, note |-> NullNote,
        error |-> "Measure out of range"]
  ELSE IF body.session_id = NoSession
  THEN [db |-> db, status |-> 500, note |-> NullNote, error |-> Uncaught]
  ELSE LET row == Row(id, body, SqliteDatetimeNow(now))
       IN  [db |-> db \cup {row}, status |-> 200, note |-> row, error |-> ""]

\* GET /api/notes/count with SELECT COUNT(*) FROM notes
GetCountOfRows(db) ==
  [status |-> 200, count |-> Cardinality(db), error |-> ""]

\* GET /api/notes/count
GetCount(db) ==
  [status |-> 200, count |-> Cardinality({r \in db : r.is_rest = 0}),
   error |-> ""]

\* DELETE /api/notes/:id with WHERE id = ? alone
DeleteNotesAnySession(db, id, session_id) ==
  LET hit == {r \in db : r.id = id}
  IN  IF hit # {} THEN [db |-> db \ hit, status |-> 200, error |-> ""]
      ELSE [db |-> db, status |-> 404, error |-> NotFoundOrNotOwned]

\* DELETE /api/notes/:id telling a note of another session from no note
DeleteNotesForbidden(db, id, session_id) ==
  IF session_id = NoSession
  THEN [db |-> db, status |-> 500, error |-> Uncaught]
  ELSE LET hit == {r \in db : r.id = id /\ r.session_id = session_id}
       IN  IF hit # {} THEN [db |-> db \ hit, status |-> 200, error |-> ""]
           ELSE IF \E r \in db : r.id = id
           THEN [db |-> db, status |-> 403, error |-> "Forbidden"]
           ELSE [db |-> db, status |-> 404, error |-> NotFoundOrNotOwned]

\* DELETE /api/notes/:id
DeleteNotes(db, id, session_id) ==
  IF session_id = NoSession
  THEN [db |-> db, status |-> 500, error |-> Uncaught]
  ELSE LET hit == {r \in db : r.id = id /\ r.session_id = session_id}
       IN  IF hit # {} THEN [db |-> db \ hit, status |-> 200, error |-> ""]
           ELSE [db |-> db, status |-> 404, error |-> NotFoundOrNotOwned]

\* x || fallback on a JSON text value
TextOr(x, fallback) == IF x \in {"", "null", "undefined"} THEN fallback ELSE x

\* PUT /api/notes/:id writing every column the body names
PutNotesWholeRow(db, id, body) ==
  LET hit == {r \in db : r.id = id}
      upd(r) == [r EXCEPT !.pitch = body.pitch, !.beat = body.beat,
                          !.duration = body.duration,
                          !.accidental = TextOr(body.accidental, "null"),
                          !.dynamic = TextOr(body.dynamic, "mf"),
                          !.measure = body.measure,
                          !.session_id = body.session_id]
  IN  IF hit # {}
      THEN [db |-> (db \ hit) \cup {upd(r) : r \in hit}, status |-> 200,
            note |-> upd(CHOOSE r \in hit : TRUE), error |-> ""]
      ELSE [db |-> db, status |-> 404, note |-> NullNote,
            error |-> "Note not found"]

\* PUT /api/notes/:id with WHERE id = ? AND session_id = ?
PutNotesOwned(db, id, body) ==
  LET hit == {r \in db : r.id = id /\ r.session_id = body.session_id}
      upd(r) == [r EXCEPT !.pitch = body.pitch, !.beat = body.beat,
                          !.duration = body.duration,
                          !.accidental = TextOr(body.accidental, "null"),
                          !.dynamic = TextOr(body.dynamic, "mf")]
  IN  IF hit # {}
      THEN [db |-> (db \ hit) \cup {upd(r) : r \in hit}, status |-> 200,
            note |-> upd(CHOOSE r \in hit : TRUE), error |-> ""]
      ELSE [db |-> db, status |-> 404, note |-> NullNote,
            error |-> "Note not found"]

\* PUT /api/notes/:id
PutNotes(db, id, body) ==
  LET hit == {r \in db : r.id = id}
      upd(r) == [r EXCEPT !.pitch = body.pitch, !.beat = body.beat,
                          !.duration = body.duration,
                          !.accidental = TextOr(body.accidental, "null"),
                          !.dynamic = TextOr(body.dynamic, "mf")]
  IN  IF hit # {}
      THEN [db |-> (db \ hit) \cup {upd(r) : r \in hit}, status |-> 200,
            note |-> upd(CHOOSE r \in hit : TRUE), error |-> ""]
      ELSE [db |-> db, status |-> 404, note |-> NullNote,
            error |-> "Note not found"]

\* GET /api/notes/since/:timestamp
GetSince(db, timestamp) ==
  [status |-> 200,
   rows |-> OrderRows({r \in db : TextGreater(r.created_at, timestamp)})]

-----------------------------------------------------------------------------
(* Array helpers *)

Range(s) == {s[i] : i \in 1..Len(s)}

\* find / findIndex over the outcomes of the test on each element: the index
\* of the first TRUE, 0 when there is none
FirstIndex(tests) ==
  IF \E i \in 1..Len(tests) : tests[i]
  THEN CHOOSE i \in 1..Len(tests) : tests[i] /\ \A j \in 1..(i - 1) : ~tests[j]
  ELSE 0

RemoveAt(s, i) ==
  IF i = 0 THEN s ELSE SubSeq(s, 1, i - 1) \o SubSeq(s, i + 1, Len(s))

\* idx = notes.findIndex(n => n.id === id); if (idx !== -1) notes.splice(idx, 1)
SpliceById(notes, id) ==
  LET HasId(n) == n.id = id
  IN  RemoveAt(notes, FirstIndex([i \in 1..Len(notes) |-> HasId(notes[i])]))

\* notes.filter(n => n.instrument_id === instrument && n.measure === measure)
NotesOf(notes, instrument, measure) ==
  LET Here(n) == n.instrument_id = instrument /\ n.measure = measure
  IN  SelectSeq(notes, Here)

\* reduce((sum, n) => sum + (DUR_TO_BEATS[n.duration] || 0), 0)
RECURSIVE UsedBeats(_)
UsedBeats(notes) ==
  IF notes = <<>> THEN 0
  ELSE JsOr(DUR_TO_BEATS(Head(notes).duration), 0) + UsedBeats(Tail(notes))

-----------------------------------------------------------------------------
(* The client: requests in flight *)

NullBody == NoteData("", <<>>, 0, 0, "", FALSE, "")

\* The body of DELETE /api/notes/:id: { session_id }
SessionBody(session) == [NullBody EXCEPT !.session_id = session]

\* One request of the client.  stage "req": sent, not yet handled by the
\* server; "ok" / "err": the outcome the awaiting code will see.
\* note: the object the awaiting code holds; rows: the response's rows.
Msg(op, from, body, note, since) ==
  [op |-> op, from |-> from, stage |-> "req", body |-> body, note |-> note,
   since |-> since, rows |-> <<>>]

Reply(m, rows) == [m EXCEPT !.stage = "ok", !.rows = rows]
Failure(m) == [m EXCEPT !.stage = "err", !.rows = <<>>]

Pending == BagToSet(inflight)

Send(m) ==
  /\ BagCardinality(inflight) < MaxInflight
  /\ inflight' = inflight (+) SetToBag({m})

Swap(m, r) == inflight' = (inflight (-) SetToBag({m})) (+) SetToBag({r})
Take(m) == inflight' = inflight (-) SetToBag({m})

\* JSON.parse makes a new object of every row it reads: the object gets the
\* least ref no live object of that id has
LiveObjects ==
  Range(scoreNotes) \cup Range(placedNotes) \cup {m.note : m \in Pending}

FreshRef(id) ==
  LET used == {o.ref : o \in {x \in LiveObjects : x.id = id}}
  IN  CHOOSE k \in 1..(Cardinality(used) + 1) :
        k \notin used /\ \A j \in 1..(k - 1) : j \in used

Parse(row) == [row EXCEPT !.ref = FreshRef(row.id)]

ParseAll(rows) == [i \in 1..Len(rows) |-> Parse(rows[i])]

-----------------------------------------------------------------------------
(* editor.js: pitch <-> staff position and pointer <-> staff helpers.      *)
(* A line position is counted in halves of a line (LineUnit) and a length  *)
(* in pixels; the staves tried keep every quotient of the code whole.      *)

LineUnit == 2            \* one line position, in halves

\* Math.round(n / d) for d > 0
Round(n, d) == (2 * n + d) \div (2 * d)

\* a % n of JS: the sign of the dividend
JsRem(a, n) == IF a >= 0 THEN a % n ELSE 0 - ((0 - a) % n)

\* A number appended to a string
NumStr(n) ==
  IF n \in 0..9
  THEN <<"0", "1", "2", "3", "4", "5", "6", "7", "8", "9">>[n + 1]
  ELSE ToString(n)

\* parseInt of one digit character
parseInt(c) == CHOOSE n \in 0..9 : NumStr(n) = c

\* Diatonic note names in order (C=0 ... B=6)
DIATONIC == <<"C", "D", "E", "F", "G", "A", "B">>

\* DIATONIC.indexOf(letter)
DiatonicIndexOf(letter) ==
  IF \E i \in 1..7 : DIATONIC[i] = letter
  THEN (CHOOSE i \in 1..7 : DIATONIC[i] = letter) - 1
  ELSE -1

\* CLEF_BASE[clef] || CLEF_BASE.treble
CLEF_BASE(clef) ==
  CASE clef = "treble" -> [noteIdx |-> 3, octave |-> 5]
    [] clef = "alto" -> [noteIdx |-> 4, octave |-> 4]
    [] clef = "bass" -> [noteIdx |-> 5, octave |-> 3]
    [] OTHER -> [noteIdx |-> 3, octave |-> 5]

\* linePosToPitch without the key signature's accidental
linePosToPitchNoKey(linePos, clef, keyAccidentals) ==
  LET base == CLEF_BASE(clef)
      absPos == base.noteIdx + base.octave * 7 - Round(2 * linePos, LineUnit)
  IN  <<DIATONIC[(absPos % 7) + 1], NumStr(absPos \div 7)>>

linePosToPitch(linePos, clef, keyAccidentals) ==
  LET base == CLEF_BASE(clef)
      steps == Round(2 * linePos, LineUnit)
      absPos == base.noteIdx + base.octave * 7 - steps
      rem == JsRem(absPos, 7)
      noteIdx == IF rem < 0 THEN rem + 7 ELSE rem
      octave == IF rem < 0 THEN (absPos \div 7) - 1 ELSE absPos \div 7
      letter == DIATONIC[noteIdx + 1]
      keyAcc == KeyAccOf(keyAccidentals, letter)
  IN  IF keyAcc = "" THEN <<letter, NumStr(octave)>>
      ELSE <<letter, keyAcc, NumStr(octave)>>

pitchToLinePos(pitch, clef) ==
  IF ~(Len(pitch) >= 1 /\ pitch[1] \in Letters) THEN 2 * LineUnit
  ELSE LET letter == pitch[1]
           octave == parseInt(pitch[Len(pitch)])
           noteIdx == DiatonicIndexOf(letter)
           base == CLEF_BASE(clef)
           pitchAbs == noteIdx + octave * 7
           baseAbs == base.noteIdx + base.octave * 7
       IN  ((baseAbs - pitchAbs) * LineUnit) \div 2

\* NoteEditor._yToLinePos: Math.round(rawPos * 2) / 2 with
\* rawPos = (y - topY) / halfSpacing and halfSpacing = (botY - topY) / 4 / 2
yToLinePos(y, stave) ==
  (Round(2 * 8 * (y - stave.topY), stave.botY - stave.topY) * LineUnit) \div 2

\* NoteEditor._snapY: topY + linePos * halfSpacing * 2 with
\* halfSpacing = (botY - topY) / 8
snapY(linePos, stave) ==
  stave.topY + (linePos * 2 * (stave.botY - stave.topY)) \div (8 * LineUnit)

\* NoteEditor._snapX
snapX(beat, stave, beats) ==
  LET musicWidth == stave.noteEndX - stave.noteStartX
  IN  stave.noteStartX + ((beat - BeatUnit) * musicWidth) \div (beats * BeatUnit)

\* _xToBeat on the quarter-note grid whatever the selected duration
xToBeatOnQuarters(x, stave, selDuration, beats) ==
  LET gridPos == Round((x - stave.noteStartX) * beats,
                       stave.noteEndX - stave.noteStartX)
  IN  BeatUnit + Max(0, Min(gridPos, beats - 1)) * BeatUnit

\* _xToBeat without the upper clamp of its grid position
xToBeatOnOpenEnded(x, stave, selDuration, beats) ==
  LET musicWidth == stave.noteEndX - stave.noteStartX
      durBeats == JsOr(DUR_TO_BEATS(selDuration), BeatUnit)
      relX == x - stave.noteStartX
      gridPos == Round(relX * beats * BeatUnit, musicWidth * durBeats)
  IN  BeatUnit + Max(0, gridPos * durBeats)

\* NoteEditor._xToBeat
xToBeatOn(x, stave, selDuration, beats) ==
  LET musicWidth == stave.noteEndX - stave.noteStartX
      durBeats == JsOr(DUR_TO_BEATS(selDuration), BeatUnit)
      relX == x - stave.noteStartX
      \* Math.round((relX / musicWidth) * subdivisions)
      gridPos == Round(relX * beats * BeatUnit, musicWidth * durBeats)
      \* clamped * durBeats
      clamped == Max(0, Min(gridPos * durBeats, beats * BeatUnit - durBeats))
  IN  BeatUnit + clamped

-----------------------------------------------------------------------------
(* app.js, editor.js, beginner-renderer.js: fixed context of the client *)

\* The editor is open on the first instrument at the application's first
\* measure; the beginner view starts on the same
instrumentId == "violin1"
currentMeasure == 1

\* Inputs of the user
\* Clicks on the editor's staff: <<pointer x at the last mousemove, duration
\* selected then, duration selected now, rest mode>>
EditorInputs ==
  {<<0, "half", "half", FALSE>>, <<XRes \div 2, "half", "half", FALSE>>,
   <<(3 * XRes) \div 4, "quarter", "quarter", FALSE>>,
   <<(3 * XRes) \div 4, "quarter", "half", FALSE>>,
   <<XRes - 1, "eighth", "eighth", TRUE>>}
OtherDurInputs == {"half", "quarter"}
EditorPitch == <<"F", "#", "4">>
BeginnerPitchInputs == {<<"G", "4">>}
BeginnerBeatInputs == {2, beatsNum}
DragInputs == {-1, 1, 3}

NoDrag == [noteId |-> 0, originalDur |-> "", newDur |-> ""]

\* NoteEditor._xToBeat for a pointer at x/XRes of the music area
xToBeat(x, selDuration, beats) ==
  xToBeatOn(x, [noteStartX |-> 0, noteEndX |-> XRes], selDuration, beats)

\* The pitch map of pitchToY with D4 drawn where E4 is
BeginnerPitchPosShared(pitch) ==
  CASE pitch = <<"C", "5">> -> -2 [] pitch = <<"B", "4">> -> -1
    [] pitch = <<"A", "4">> -> 0 [] pitch = <<"G", "4">> -> 1
    [] pitch = <<"F", "4">> -> 2 [] pitch = <<"E", "4">> -> 3
    [] pitch = <<"D", "4">> -> 3 [] pitch = <<"C", "4">> -> 5
    [] OTHER -> 2

\* BeginnerRenderer.pitchToY: map[pitch] ?? 1, in half line spacings
BeginnerPitchPos(pitch) ==
  CASE pitch = <<"C", "5">> -> -2 [] pitch = <<"B", "4">> -> -1
    [] pitch = <<"A", "4">> -> 0 [] pitch = <<"G", "4">> -> 1
    [] pitch = <<"F", "4">> -> 2 [] pitch = <<"E", "4">> -> 3
    [] pitch = <<"D", "4">> -> 4 [] pitch = <<"C", "4">> -> 5
    [] OTHER -> 2

\* BeginnerRenderer._beatsToDuration
beatsToDuration(beats) ==
  IF beats >= 3 * BeatUnit THEN "whole"
  ELSE IF 2 * beats >= 3 * BeatUnit THEN "half"
  ELSE IF 4 * beats >= 3 * BeatUnit THEN "quarter"
  ELSE IF 8 * beats >= 3 * BeatUnit THEN "eighth"
  ELSE "sixteenth"

\* BEGINNER_PITCHES, in the order yToPitch scans them
BEGINNER_PITCHES ==
  << <<"C", "5">>, <<"B", "4">>, <<"A", "4">>, <<"G", "4">>,
     <<"F", "4">>, <<"E", "4">>, <<"D", "4">>, <<"C", "4">> >>

\* pitchToY: topY + pos * lineSpacing * 2
pitchToY(pitch, topY, lineSpacing) ==
  topY + BeginnerPitchPos(pitch) * lineSpacing

\* bestDist = Infinity
Infinity == -1

\* yToPitch: the scan over BEGINNER_PITCHES from its i-th entry on
RECURSIVE yToPitchFrom(_, _, _, _, _, _)
yToPitchFrom(i, best, bestDist, y, topY, lineSpacing) ==
  IF i > Len(BEGINNER_PITCHES) THEN best
  ELSE LET p == BEGINNER_PITCHES[i]
           d == Abs(pitchToY(p, topY, lineSpacing) - y)
       IN  IF bestDist = Infinity \/ d < bestDist
           THEN yToPitchFrom(i + 1, p, d, y, topY, lineSpacing)
           ELSE yToPitchFrom(i + 1, best, bestDist, y, topY, lineSpacing)

yToPitch(y, topY, lineSpacing) ==
  yToPitchFrom(1, BEGINNER_PITCHES[1], Infinity, y, topY, lineSpacing)

-----------------------------------------------------------------------------
(* app.js: init() and the polling loop *)

\* init(): the response of fetchScore, then startPolling()
InitDone(m) ==
  /\ m \in Pending /\ m.op = "fetchScore" /\ m.stage \in {"ok", "err"}
  /\ Take(m)
  /\ IF m.stage = "ok"
     THEN /\ scoreNotes' = ParseAll(m.rows)
          /\ lastFetchTime' = toISOString(clock)
          /\ booted' = "ready"
     ELSE /\ booted' = "failed"
          /\ UNCHANGED <<scoreNotes, lastFetchTime>>
  /\ UNCHANGED <<db_notes, uuidCount, clock, placedNotes, borderColor, dragging>>

\* The setInterval callback of startPolling, up to its await
PollSend ==
  /\ booted = "ready"
  /\ lastFetchTime # <<>>
  /\ Send(Msg("fetchNotesSince", "poll", NullBody, NullNote, lastFetchTime))
  /\ UNCHANGED <<db_notes, uuidCount, clock, booted, scoreNotes, lastFetchTime,
                 placedNotes, borderColor, dragging>>

\* The merge loop: push every new note whose id is not in existingIds
RECURSIVE MergeNotes(_, _, _)
MergeNotes(notes, newNotes, existingIds) ==
  IF newNotes = <<>> THEN notes
  ELSE IF Head(newNotes).id \in existingIds
       THEN MergeNotes(notes, Tail(newNotes), existingIds)
       ELSE MergeNotes(Append(notes, Parse(Head(newNotes))), Tail(newNotes),
                       existingIds)

\* The setInterval callback after its await, stamping lastFetchTime in a
\* finally block
PollDoneStampsAlways(m) ==
  /\ m \in Pending /\ m.op = "fetchNotesSince" /\ m.stage \in {"ok", "err"}
  /\ Take(m)
  /\ scoreNotes' =
       IF m.stage = "ok"
       THEN MergeNotes(scoreNotes, m.rows, {n.id : n \in Range(scoreNotes)})
       ELSE scoreNotes
  /\ lastFetchTime' = toISOString(clock)
  /\ UNCHANGED <<db_notes, uuidCount, clock, booted, placedNotes, borderColor,
                 dragging>>

\* The setInterval callback after its await
PollDone(m) ==
  /\ m \in Pending /\ m.op = "fetchNotesSince" /\ m.stage \in {"ok", "err"}
  /\ Take(m)
  /\ IF m.stage = "ok"
     THEN /\ scoreNotes' =
               MergeNotes(scoreNotes, m.rows, {n.id : n \in Range(scoreNotes)})
          /\ lastFetchTime' = toISOString(clock)
     ELSE UNCHANGED <<scoreNotes, lastFetchTime>>
  /\ UNCHANGED <<db_notes, uuidCount, clock, booted, placedNotes, borderColor,
                 dragging>>

-----------------------------------------------------------------------------
(* editor.js: NoteEditor *)

\* scoreData.notes.find(n => same instrument, same measure,
\*                           Math.abs(n.beat - beat) < 0.01)
NoteAtBeat(notes, instrument, measure, beat) ==
  LET AtBeat(n) == /\ n.instrument_id = instrument /\ n.measure = measure
                   /\ Abs(n.beat - beat) < 10 * Epsilon
  IN  FirstIndex([i \in 1..Len(notes) |-> AtBeat(notes[i])])

\* The capacity test of _placeNote without its end-of-measure disjunct
PlaceBlockedSumOnly(notes, beat, selDuration) ==
  LET existingNotes == NotesOf(notes, instrumentId, currentMeasure)
      usedBeats == UsedBeats(existingNotes)
      newNoteBeats == JsOr(DUR_TO_BEATS(selDuration), BeatUnit)
  IN  usedBeats + newNoteBeats > beatsNum * BeatUnit

\* The capacity test of _placeNote: TRUE when the placement is blocked
PlaceBlocked(notes, beat, selDuration) ==
  LET existingNotes == NotesOf(notes, instrumentId, currentMeasure)
      usedBeats == UsedBeats(existingNotes)
      newNoteBeats == JsOr(DUR_TO_BEATS(selDuration), BeatUnit)
  IN  \/ usedBeats + newNoteBeats > beatsNum * BeatUnit
      \/ beat + newNoteBeats - BeatUnit > beatsNum * BeatUnit

\* The accidental override of _placeNote that leaves the pitch as it is
\* for 'natural'
finalPitchKeepsNatural(pitch, selectedAccidental, restMode) ==
  IF selectedAccidental # "null" /\ ~restMode
  THEN LET letter == pitch[1]
           octave == pitch[Len(pitch)]
       IN  CASE selectedAccidental = "sharp" -> <<letter, "#", octave>>
             [] selectedAccidental = "flat" -> <<letter, "b", octave>>
             [] OTHER -> pitch
  ELSE pitch

\* finalPitch of _placeNote: the selected accidental ("null": none) taking
\* the place of the pitch's own
finalPitch(pitch, selectedAccidental, restMode) ==
  IF selectedAccidental # "null" /\ ~restMode
  THEN LET letter == pitch[1]
           octave == pitch[Len(pitch)]
       IN  CASE selectedAccidental = "sharp" -> <<letter, "#", octave>>
             [] selectedAccidental = "flat" -> <<letter, "b", octave>>
             [] selectedAccidental = "natural" -> <<letter, octave>>
             [] OTHER -> pitch
  ELSE pitch

\* _placeNote(pitch, beat) up to its await, with the toolbar's
\* selectedDuration and restMode
placeNote(pitch, beat, selDuration, rest) ==
  IF PlaceBlocked(scoreNotes, beat, selDuration)
  THEN /\ borderColor' = "#c44"
       /\ UNCHANGED inflight
  ELSE /\ Send(Msg("addNote", "_placeNote",
                   NoteData(instrumentId, pitch, currentMeasure, beat,
                            selDuration, rest, ThisSession),
                   NullNote, <<>>))
       /\ UNCHANGED borderColor

\* _deleteExistingNote(note) up to its await
deleteExistingNote(note) ==
  /\ Send(Msg("deleteNote", "_deleteExistingNote", SessionBody(ThisSession),
              note, <<>>))
  /\ UNCHANGED borderColor

\* The click handler of the editor.  The ghost's beat was computed by the
\* last mousemove (pointer at x, duration ghostDur selected then); the
\* toolbar now selects selDuration and rest.
EditorClick(x, ghostDur, selDuration, rest) ==
  /\ booted = "ready"
  /\ LET beat == xToBeat(x, ghostDur, beatsNum)
         existing == NoteAtBeat(scoreNotes, instrumentId, currentMeasure, beat)
     IN  IF existing # 0
         THEN deleteExistingNote(scoreNotes[existing])
         ELSE placeNote(EditorPitch, beat, selDuration, rest)
  /\ UNCHANGED <<db_notes, uuidCount, clock, booted, scoreNotes, lastFetchTime,
                 placedNotes, dragging>>

\* setTimeout(() => { borderColor = '' }, 400)
BorderTimeout ==
  /\ borderColor = "#c44"
  /\ borderColor' = ""
  /\ UNCHANGED <<db_notes, uuidCount, clock, booted, scoreNotes, lastFetchTime,
                 inflight, placedNotes, dragging>>

\* _placeNote after its await
PlaceNoteDone(m) ==
  /\ m \in Pending /\ m.op = "addNote" /\ m.from = "_placeNote"
  /\ m.stage \in {"ok", "err"}
  /\ Take(m)
  /\ IF m.stage = "ok"
     THEN LET saved == Parse(m.rows[1])
          IN  /\ placedNotes' = Append(placedNotes, saved)
              /\ scoreNotes' = Append(scoreNotes, saved)
     ELSE UNCHANGED <<placedNotes, scoreNotes>>
  /\ UNCHANGED <<db_notes, uuidCount, clock, booted, lastFetchTime, borderColor,
                 dragging>>

\* undo() up to its await
Undo ==
  /\ booted = "ready"
  /\ placedNotes # <<>>
  /\ placedNotes' = SubSeq(placedNotes, 1, Len(placedNotes) - 1)
  /\ Send(Msg("deleteNote", "undo", SessionBody(ThisSession),
              placedNotes[Len(placedNotes)], <<>>))
  /\ UNCHANGED <<db_notes, uuidCount, clock, booted, scoreNotes, lastFetchTime,
                 borderColor, dragging>>

\* undo() without the push of its catch block
UndoDoneNoReadd(m) ==
  /\ m \in Pending /\ m.op = "deleteNote" /\ m.from = "undo"
  /\ m.stage \in {"ok", "err"}
  /\ Take(m)
  /\ IF m.stage = "ok"
     THEN scoreNotes' = SpliceById(scoreNotes, m.note.id)
     ELSE UNCHANGED scoreNotes
  /\ UNCHANGED <<db_notes, uuidCount, clock, booted, lastFetchTime, borderColor,
                 dragging, placedNotes>>

\* undo() after its await
UndoDone(m) ==
  /\ m \in Pending /\ m.op = "deleteNote" /\ m.from = "undo"
  /\ m.stage \in {"ok", "err"}
  /\ Take(m)
  /\ IF m.stage = "ok"
     THEN /\ scoreNotes' = SpliceById(scoreNotes, m.note.id)
          /\ UNCHANGED placedNotes
     ELSE /\ placedNotes' = Append(placedNotes, m.note)
          /\ UNCHANGED scoreNotes
  /\ UNCHANGED <<db_notes, uuidCount, clock, booted, lastFetchTime, borderColor,
                 dragging>>

\* _deleteExistingNote after its await: the catch block is empty
DeleteExistingDone(m) ==
  /\ m \in Pending /\ m.op = "deleteNote" /\ m.from = "_deleteExistingNote"
  /\ m.stage \in {"ok", "err"}
  /\ Take(m)
  /\ scoreNotes' = SpliceById(scoreNotes, m.note.id)
  /\ UNCHANGED <<db_notes, uuidCount, clock, booted, lastFetchTime, placedNotes,
                 borderColor, dragging>>

-----------------------------------------------------------------------------
(* beginner-renderer.js: BeginnerRenderer *)

\* The notes _draw makes blocks of
Displayed(notes) ==
  LET Shown(n) == /\ n.instrument_id = instrumentId
                  /\ n.measure = currentMeasure /\ n.is_rest = 0
  IN  SelectSeq(notes, Shown)

\* A block lies over the whole of beat column `beat` in the row of `pitch`
\* (a block leaves 2px free at either end of its span)
ColumnCovered(notes, beat, pitch) ==
  \E i \in 1..Len(Displayed(notes)) :
    LET n == Displayed(notes)[i]
        dur == JsOr(DUR_TO_BEATS(n.duration), BeatUnit)
    IN  /\ BeginnerPitchPos(n.pitch) = BeginnerPitchPos(pitch)
        /\ n.beat < beat * BeatUnit
        /\ n.beat + dur > (beat + 1) * BeatUnit

\* _onClick on a block that is not a drag handle: _deleteNote(noteId) up to
\* its await
BeginnerClickBlock(noteId) ==
  /\ booted = "ready"
  /\ dragging = NoDrag
  /\ \E i \in 1..Len(Displayed(scoreNotes)) : Displayed(scoreNotes)[i].id = noteId
  /\ LET HasId(n) == n.id = noteId
         note == scoreNotes[FirstIndex([i \in 1..Len(scoreNotes) |->
                                          HasId(scoreNotes[i])])]
     IN  Send(Msg("deleteNote", "_deleteNote", SessionBody(ThisSession), note,
                  <<>>))
  /\ UNCHANGED <<db_notes, uuidCount, clock, booted, scoreNotes, lastFetchTime,
                 placedNotes, borderColor, dragging>>

\* _deleteNote after its await: the catch block is empty
BeginnerDeleteDone(m) ==
  /\ m \in Pending /\ m.op = "deleteNote" /\ m.from = "_deleteNote"
  /\ m.stage \in {"ok", "err"}
  /\ Take(m)
  /\ scoreNotes' = SpliceById(scoreNotes, m.note.id)
  /\ UNCHANGED <<db_notes, uuidCount, clock, booted, lastFetchTime, placedNotes,
                 borderColor, dragging>>

\* The capacity and slot tests of _onClick: TRUE when the click is dropped
BeginnerBlocked(notes, beat) ==
  LET existing == NotesOf(notes, instrumentId, currentMeasure)
      usedBeats == UsedBeats(existing)
      Occupied(n) == Abs(n.beat - beat * BeatUnit) < 10 * Epsilon
  IN  \/ usedBeats + BeatUnit > beatsNum * BeatUnit
      \/ FirstIndex([i \in 1..Len(existing) |-> Occupied(existing[i])]) # 0

\* _onClick off every block (beat from _getPos), up to its await
BeginnerClickEmpty(beat, pitch) ==
  /\ booted = "ready"
  /\ dragging = NoDrag
  /\ ~ColumnCovered(scoreNotes, beat, pitch)
  /\ IF BeginnerBlocked(scoreNotes, beat)
     THEN UNCHANGED inflight
     ELSE Send(Msg("addNote", "_onClick",
                   NoteData(instrumentId, pitch, currentMeasure, beat * BeatUnit,
                            "quarter", FALSE, ThisSession),
                   NullNote, <<>>))
  /\ UNCHANGED <<db_notes, uuidCount, clock, booted, scoreNotes, lastFetchTime,
                 placedNotes, borderColor, dragging>>

\* _onClick after its await
BeginnerAddDone(m) ==
  /\ m \in Pending /\ m.op = "addNote" /\ m.from = "_onClick"
  /\ m.stage \in {"ok", "err"}
  /\ Take(m)
  /\ IF m.stage = "ok"
     THEN scoreNotes' = Append(scoreNotes, Parse(m.rows[1]))
     ELSE UNCHANGED scoreNotes
  /\ UNCHANGED <<db_notes, uuidCount, clock, booted, lastFetchTime, placedNotes,
                 borderColor, dragging>>

\* _onMouseDown on the drag handle of a block
MouseDownHandle(noteId) ==
  /\ booted = "ready"
  /\ \E i \in 1..Len(Displayed(scoreNotes)) : Displayed(scoreNotes)[i].id = noteId
  /\ LET HasId(n) == n.id = noteId
         note == scoreNotes[FirstIndex([i \in 1..Len(scoreNotes) |->
                                          HasId(scoreNotes[i])])]
     IN  dragging' = [noteId |-> noteId, originalDur |-> note.duration,
                      newDur |-> ""]
  /\ UNCHANGED <<db_notes, uuidCount, clock, booted, scoreNotes, lastFetchTime,
                 inflight, placedNotes, borderColor>>

\* _onMouseMove while dragging; beatDelta = Math.round(dx / beatWidth)
DragMove(beatDelta) ==
  /\ dragging # NoDrag
  /\ LET origBeats == JsOr(DUR_TO_BEATS(dragging.originalDur), BeatUnit)
         newBeats == Max(BeatUnit \div 4, origBeats + beatDelta * BeatUnit)
     IN  dragging' = [dragging EXCEPT !.newDur = beatsToDuration(newBeats)]
  /\ UNCHANGED <<db_notes, uuidCount, clock, booted, scoreNotes, lastFetchTime,
                 inflight, placedNotes, borderColor>>

\* _onMouseUp up to its await
MouseUp ==
  /\ booted = "ready"
  /\ LET HasId(n) == n.id = dragging.noteId
         idx == FirstIndex([i \in 1..Len(scoreNotes) |-> HasId(scoreNotes[i])])
     IN  IF /\ dragging # NoDrag /\ dragging.newDur # ""
            /\ idx # 0 /\ scoreNotes[idx].duration # dragging.newDur
         THEN LET note == scoreNotes[idx]
              IN  /\ Send(Msg("updateNote", "_onMouseUp",
                              [NullBody EXCEPT !.pitch = note.pitch,
                                               !.beat = note.beat,
                                               !.duration = dragging.newDur,
                                               !.accidental = note.accidental,
                                               !.dynamic = note.dynamic],
                              note, <<>>))
                  /\ UNCHANGED dragging
         ELSE /\ dragging' = NoDrag
              /\ UNCHANGED inflight
  /\ UNCHANGED <<db_notes, uuidCount, clock, booted, scoreNotes, lastFetchTime,
                 placedNotes, borderColor>>

\* Object.assign(note, updated) on the object the handler holds
AssignTo(notes, note, updated) ==
  [i \in 1..Len(notes) |->
     IF notes[i].id = note.id /\ notes[i].ref = note.ref
     THEN [updated EXCEPT !.ref = note.ref] ELSE notes[i]]

\* The same assignment seen through the objects that pending handlers hold
RECURSIVE AssignHeld(_, _, _, _)
AssignHeld(msgs, bag, note, updated) ==
  IF msgs = {} THEN EmptyBag
  ELSE LET m == CHOOSE x \in msgs : TRUE
           held == IF m.note.id = note.id /\ m.note.ref = note.ref
                   THEN [m EXCEPT !.note = [updated EXCEPT !.ref = note.ref]]
                   ELSE m
       IN  AssignHeld(msgs \ {m}, bag, note, updated)
             (+) (held :> CopiesIn(m, bag))

\* _onMouseUp after its await
ResizeDone(m) ==
  /\ m \in Pending /\ m.op = "updateNote" /\ m.stage \in {"ok", "err"}
  /\ IF m.stage = "ok"
     THEN /\ scoreNotes' = AssignTo(scoreNotes, m.note, m.rows[1])
          /\ placedNotes' = AssignTo(placedNotes, m.note, m.rows[1])
          /\ LET rest == inflight (-) SetToBag({m})
             IN  inflight' = AssignHeld(BagToSet(rest), rest, m.note, m.rows[1])
     ELSE /\ Take(m)
          /\ UNCHANGED <<scoreNotes, placedNotes>>
  /\ dragging' = NoDrag
  /\ UNCHANGED <<db_notes, uuidCount, clock, booted, lastFetchTime, borderColor>>

\* mouseleave on the container
MouseLeave ==
  /\ dragging # NoDrag
  /\ dragging' = NoDrag
  /\ UNCHANGED <<db_notes, uuidCount, clock, booted, scoreNotes, lastFetchTime,
                 inflight, placedNotes, borderColor>>

-----------------------------------------------------------------------------
(* The network and the server's handling of the client's requests *)

\* express runs the route of one request of the client
ServerHandle(m) ==
  /\ m \in Pending /\ m.stage = "req"
  /\ CASE m.op = "fetchScore" ->
            /\ Swap(m, Reply(m, GetScore(db_notes).rows))
            /\ UNCHANGED <<db_notes, uuidCount>>
       [] m.op = "addNote" ->
            /\ uuidCount < MaxNotes
            /\ LET r == PostNotes(db_notes, m.body, uuidCount + 1, clock)
               IN  /\ db_notes' = r.db
                   /\ uuidCount' = uuidCount + 1
                   /\ Swap(m, IF r.status = 200 THEN Reply(m, <<r.note>>)
                              ELSE Failure(m))
       [] m.op = "deleteNote" ->
            /\ LET r == DeleteNotes(db_notes, m.note.id, m.body.session_id)
               IN  /\ db_notes' = r.db
                   /\ Swap(m, IF r.status = 200 THEN Reply(m, <<>>)
                              ELSE Failure(m))
            /\ UNCHANGED uuidCount
       [] m.op = "updateNote" ->
            /\ LET r == PutNotes(db_notes, m.note.id, m.body)
               IN  /\ db_notes' = r.db
                   /\ Swap(m, IF r.status = 200 THEN Reply(m, <<r.note>>)
                              ELSE Failure(m))
            /\ UNCHANGED uuidCount
       [] m.op = "fetchNotesSince" ->
            /\ Swap(m, Reply(m, GetSince(db_notes, m.since).rows))
            /\ UNCHANGED <<db_notes, uuidCount>>
  /\ UNCHANGED <<clock, booted, scoreNotes, lastFetchTime, placedNotes,
                 borderColor, dragging>>

\* fetch() rejects: the request never arrived, or its response was lost
NetworkFail(m) ==
  /\ m \in Pending /\ m.stage \in {"req", "ok"}
  /\ Swap(m, Failure(m))
  /\ UNCHANGED <<db_notes, uuidCount, clock, booted, scoreNotes, lastFetchTime,
                 placedNotes, borderColor, dragging>>

-----------------------------------------------------------------------------
(* Another contributor: a second browser on the same store *)

OtherNoteInputs ==
  {NoteData(instrumentId, <<"G", "4">>, currentMeasure, BeatUnit, "quarter",
            FALSE, OtherSession),
   NoteData(instrumentId, <<"G", "4">>, currentMeasure, 2 * BeatUnit, "half",
            FALSE, OtherSession)}

\* The other browser passes its own beat-slot test on the notes it placed
OtherCreate(body) ==
  /\ uuidCount < MaxNotes
  /\ ~\E r \in db_notes :
        /\ r.session_id = OtherSession /\ r.measure = body.measure
        /\ Abs(r.beat - body.beat) < 10 * Epsilon
  /\ db_notes' = PostNotes(db_notes, body, uuidCount + 1, clock).db
  /\ uuidCount' = uuidCount + 1
  /\ UNCHANGED <<clock, booted, scoreNotes, lastFetchTime, inflight,
                 placedNotes, borderColor, dragging>>

OtherDelete(id) ==
  /\ db_notes' = DeleteNotes(db_notes, id, OtherSession).db
  /\ db_notes' # db_notes
  /\ UNCHANGED <<uuidCount, clock, booted, scoreNotes, lastFetchTime, inflight,
                 placedNotes, borderColor, dragging>>

\* The other contributor resizes a note in its beginner view
OtherUpdate(id, duration) ==
  /\ \E r \in db_notes :
       /\ r.id = id /\ r.duration # duration
       /\ db_notes' =
            PutNotes(db_notes, id,
                     [NullBody EXCEPT !.pitch = r.pitch, !.beat = r.beat,
                                      !.duration = duration,
                                      !.accidental = r.accidental,
                                      !.dynamic = r.dynamic]).db
  /\ UNCHANGED <<uuidCount, clock, booted, scoreNotes, lastFetchTime, inflight,
                 placedNotes, borderColor, dragging>>

\* Time passes
Tick ==
  /\ clock < MaxClock
  /\ clock' = clock + 1
  /\ UNCHANGED <<db_notes, uuidCount, booted, scoreNotes, lastFetchTime,
                 inflight, placedNotes, borderColor, dragging>>

-----------------------------------------------------------------------------
(* playback.js: PlaybackEngine.  Times are in milliseconds. *)

SecUnit == 1000          \* one second, in ms

\* TIMBRES[instrumentId] || TIMBRES.violin1: the envelope times, the sustain
\* level in hundredths and the harmonics
TIMBRES(instrument) ==
  CASE instrument = "violin2" ->
         [attack |-> 50, decay |-> 80, sustain |-> 65, release |-> 120,
          harmonics |-> 3]
    [] instrument = "viola" ->
         [attack |-> 60, decay |-> 100, sustain |-> 60, release |-> 150,
          harmonics |-> 4]
    [] instrument = "cello" ->
         [attack |-> 70, decay |-> 120, sustain |-> 60, release |-> 180,
          harmonics |-> 4]
    [] instrument = "contrabass" ->
         [attack |-> 80, decay |-> 150, sustain |-> 55, release |-> 200,
          harmonics |-> 5]
    [] OTHER ->
         [attack |-> 40, decay |-> 80, sustain |-> 70, release |-> 120,
          harmonics |-> 3]

\* Beats counted as seconds whatever the tempo
BeatsToMsAtSixty(x, tempo) == (x * SecUnit) \div BeatUnit

\* x beats (in thousandths) at 60 / tempo seconds per beat, in ms
BeatsToMs(x, tempo) == (((x * 60) \div tempo) * SecUnit) \div BeatUnit

\* _scheduleNote: the envelope set on the note's gain and the oscillators
\* (one per harmonic, then the vibrato LFO) pushed to scheduledNodes
scheduleNote(call, note, noteStart, noteDur) ==
  LET timbre == TIMBRES(note.instrument_id)
      endTime == noteStart + noteDur
  IN  [id |-> note.id, instrument_id |-> note.instrument_id,
       pitch |-> note.pitch, startTime |-> noteStart, duration |-> noteDur,
       attackEnd |-> noteStart + timbre.attack,
       decayEnd |-> noteStart + timbre.attack + timbre.decay,
       releaseStart |-> endTime - timbre.release,
       endTime |-> endTime,
       nodes |-> [h \in 1..(timbre.harmonics + 1) |-> [call |-> call, osc |-> h]]]

\* The nodes of a sequence of _scheduleNote calls, in the order pushed
RECURSIVE NodesOf(_)
NodesOf(calls) ==
  IF calls = <<>> THEN <<>> ELSE calls[1].nodes \o NodesOf(Tail(calls))

\* The loop's test without the solo filter
AudibleNoSolo(note, fromMeasure) ==
  /\ note.is_rest = 0
  /\ note.measure >= fromMeasure
  /\ note.instrument_id \notin mutedInstruments

\* The notes the loop of play() does not skip
Audible(note, fromMeasure) ==
  /\ note.is_rest = 0
  /\ note.measure >= fromMeasure
  /\ ~(soloInstrument # "" /\ note.instrument_id # soloInstrument)
  /\ note.instrument_id \notin mutedInstruments

\* The loop of play() over notes, from the i-th on; calls made so far: n
RECURSIVE ScheduleFrom(_, _, _, _, _)
ScheduleFrom(i, n, scoreData, fromMeasure, now) ==
  IF i > Len(scoreData.notes) THEN <<>>
  ELSE LET note == scoreData.notes[i]
           score == scoreData.score
           measureOffset == note.measure - fromMeasure
           beatOffset == measureOffset * score.beatsNum * BeatUnit
                           + (note.beat - BeatUnit)
           noteStart == now + BeatsToMs(beatOffset, score.tempo)
           durBeats == JsOr(DUR_TO_BEATS(note.duration), BeatUnit)
           noteDur == BeatsToMs(durBeats, score.tempo)
       IN  IF Audible(note, fromMeasure)
           THEN <<scheduleNote(n + 1, note, noteStart, noteDur)>>
                  \o ScheduleFrom(i + 1, n + 1, scoreData, fromMeasure, now)
           ELSE ScheduleFrom(i + 1, n, scoreData, fromMeasure, now)

\* _totalDuration counting one measure past the last
TotalDurationOneMore(score, fromMeasure) ==
  BeatsToMs((score.total_measures - fromMeasure + 2) * score.beatsNum * BeatUnit,
            score.tempo)

\* this._totalDuration
TotalDuration(score, fromMeasure) ==
  BeatsToMs((score.total_measures - fromMeasure + 1) * score.beatsNum * BeatUnit,
            score.tempo)

\* requestAnimationFrame: a handle that no pending request has and that is
\* not the handle the engine still keeps
requestAnimationFrame(pending, kept) ==
  CHOOSE f \in 1..3 :
    /\ f \notin pending \cup {kept}
    /\ \A g \in 1..(f - 1) : g \in pending \cup {kept}

NoTick == [none |-> TRUE]
StoppedTick == [stopped |-> TRUE]

\* stop(): what it leaves in nodesStopped, frames and lastTick
StopNodes == nodesStopped \cup Range(scheduledNodes)
StopFrames == IF animFrame # 0 THEN frames \ {animFrame} ELSE frames

\* stop() that leaves the frame request pending
stopKeepsFrame ==
  /\ playing' = FALSE
  /\ nodesStopped' = StopNodes
  /\ scheduledNodes' = <<>>
  /\ lastTick' = StoppedTick
  /\ UNCHANGED <<pb_scoreData, startTime, startMeasure, mutedInstruments,
                 soloInstrument, totalDuration, currentTime, scheduled,
                 frames, animFrame>>

stop ==
  /\ playing' = FALSE
  /\ nodesStopped' = StopNodes
  /\ scheduledNodes' = <<>>
  /\ frames' = StopFrames
  /\ animFrame' = 0
  /\ lastTick' = StoppedTick
  /\ UNCHANGED <<pb_scoreData, startTime, startMeasure, mutedInstruments,
                 soloInstrument, totalDuration, currentTime, scheduled>>

\* play() whose stop() leaves the frame request pending
playKeepsFrame(fromMeasure) ==
  LET calls == ScheduleFrom(1, 0, pb_scoreData, fromMeasure, currentTime)
      f == requestAnimationFrame(frames, 0)
  IN  /\ playing' = TRUE
      /\ startMeasure' = fromMeasure
      /\ startTime' = currentTime
      /\ scheduled' = calls
      /\ scheduledNodes' = NodesOf(calls)
      /\ nodesStopped' = {}
      /\ totalDuration' = TotalDuration(pb_scoreData.score, fromMeasure)
      /\ animFrame' = f
      /\ frames' = frames \cup {f}
      /\ lastTick' = StoppedTick
      /\ UNCHANGED <<pb_scoreData, mutedInstruments, soloInstrument,
                     currentTime>>

\* play(scoreData, fromMeasure): stop(), the scheduling loop, the total
\* duration and the first frame request
play(fromMeasure) ==
  LET calls == ScheduleFrom(1, 0, pb_scoreData, fromMeasure, currentTime)
      \* stop() has left _animFrame null
      f == requestAnimationFrame(StopFrames, 0)
  IN  /\ playing' = TRUE
      /\ startMeasure' = fromMeasure
      /\ startTime' = currentTime
      /\ scheduled' = calls
      /\ scheduledNodes' = NodesOf(calls)
      /\ nodesStopped' = {}
      /\ totalDuration' = TotalDuration(pb_scoreData.score, fromMeasure)
      /\ animFrame' = f
      /\ frames' = StopFrames \cup {f}
      \* the terminal tick of the stop() that play() starts with
      /\ lastTick' = StoppedTick
      /\ UNCHANGED <<pb_scoreData, mutedInstruments, soloInstrument,
                     currentTime>>

\* togglePlayback of app.js
TogglePlayback(fromMeasure) == IF playing THEN stop ELSE play(fromMeasure)

\* The stop button of app.js
StopButton == stop

\* toggleMute that also takes the instrument's oscillators off the list
toggleMuteSilences(instrument) ==
  /\ mutedInstruments' =
       IF instrument \in mutedInstruments
       THEN mutedInstruments \ {instrument}
       ELSE mutedInstruments \cup {instrument}
  /\ scheduledNodes' =
       SelectSeq(scheduledNodes,
                 LAMBDA node :
                   scheduled[node.call].instrument_id # instrument)
  /\ UNCHANGED <<pb_scoreData, playing, startTime, startMeasure,
                 soloInstrument, animFrame, totalDuration,
                 currentTime, frames, nodesStopped, scheduled, lastTick>>

toggleMute(instrument) ==
  /\ mutedInstruments' =
       IF instrument \in mutedInstruments
       THEN mutedInstruments \ {instrument}
       ELSE mutedInstruments \cup {instrument}
  /\ UNCHANGED <<pb_scoreData, playing, startTime, startMeasure,
                 scheduledNodes, soloInstrument, animFrame, totalDuration,
                 currentTime, frames, nodesStopped, scheduled, lastTick>>

toggleSolo(instrument) ==
  /\ soloInstrument' = IF soloInstrument = instrument THEN "" ELSE instrument
  /\ UNCHANGED <<pb_scoreData, playing, startTime, startMeasure,
                 scheduledNodes, mutedInstruments, animFrame, totalDuration,
                 currentTime, frames, nodesStopped, scheduled, lastTick>>

\* tick() that never asks for the next frame
AnimationFrameOnce(f) ==
  /\ f \in frames
  /\ frames' = frames \ {f}
  /\ UNCHANGED <<pb_scoreData, playing, startTime, startMeasure,
                 scheduledNodes, mutedInstruments, soloInstrument, animFrame,
                 totalDuration, currentTime, nodesStopped, scheduled,
                 lastTick>>

\* The browser fires the frame request f: tick() of _animateMeasure
AnimationFrame(f) ==
  /\ f \in frames
  /\ IF ~playing
     THEN /\ frames' = frames \ {f}
          /\ UNCHANGED <<pb_scoreData, playing, startTime, startMeasure,
                         scheduledNodes, mutedInstruments, soloInstrument,
                         animFrame, totalDuration, currentTime, nodesStopped,
                         scheduled, lastTick>>
     ELSE LET score == pb_scoreData.score
              secPerMeasure == BeatsToMs(score.beatsNum * BeatUnit, score.tempo)
              elapsed == currentTime - startTime
              measure == startMeasure + (elapsed \div secPerMeasure)
              elapsedInMeasure ==
                elapsed - (measure - startMeasure) * secPerMeasure
          IN  IF elapsed >= totalDuration
              THEN \* this.stop(), the fired request being out of the queue
                   /\ playing' = FALSE
                   /\ nodesStopped' = StopNodes
                   /\ scheduledNodes' = <<>>
                   /\ frames' = (frames \ {f}) \ {animFrame}
                   /\ animFrame' = 0
                   /\ lastTick' = StoppedTick
                   /\ UNCHANGED <<pb_scoreData, startTime, startMeasure,
                                  mutedInstruments, soloInstrument,
                                  totalDuration, currentTime, scheduled>>
              ELSE /\ lastTick' = [measure |-> measure,
                                   beatFraction |->
                                     <<elapsedInMeasure, secPerMeasure>>,
                                   stopped |-> FALSE]
                   /\ LET g == requestAnimationFrame(frames \ {f}, animFrame)
                      IN  animFrame' = g /\ frames' = (frames \ {f}) \cup {g}
                   /\ UNCHANGED <<pb_scoreData, playing, startTime,
                                  startMeasure, scheduledNodes,
                                  mutedInstruments, soloInstrument,
                                  totalDuration, currentTime, nodesStopped,
                                  scheduled>>

\* The audio clock advances
ClockAdvance ==
  /\ currentTime + ClockStep <= MaxClockSteps * ClockStep
  /\ currentTime' = currentTime + ClockStep
  /\ UNCHANGED <<pb_scoreData, playing, startTime, startMeasure,
                 scheduledNodes, mutedInstruments, soloInstrument, animFrame,
                 totalDuration, frames, nodesStopped, scheduled, lastTick>>

\* The engine as constructed, on the seeded score with no note
SeedScore == [tempo |-> 100, beatsNum |-> beatsNum,
              total_measures |-> total_measures]

PbConstructed ==
  /\ playing = FALSE /\ startTime = 0 /\ startMeasure = 1
  /\ scheduledNodes = <<>> /\ mutedInstruments = {} /\ soloInstrument = ""
  /\ animFrame = 0 /\ totalDuration = 0
  /\ currentTime = 0 /\ frames = {}
  /\ nodesStopped = {} /\ scheduled = <<>> /\ lastTick = NoTick

PbIdle ==
  /\ PbConstructed
  /\ pb_scoreData = [score |-> SeedScore, notes |-> <<>>]

-----------------------------------------------------------------------------
(* The application: one client, the store, another contributor *)

\* app.js and the editor as constructed: the first measure, the mode of a
\* first visit, the editor closed
NavIdle ==
  /\ app_currentMeasure = 1 /\ currentMode = "beginner"
  /\ isOpen = FALSE /\ ed_measure = 1

SysInit ==
  /\ db_notes = {}
  /\ uuidCount = 0
  /\ clock = 0
  /\ booted = "loading"
  /\ scoreNotes = <<>>
  /\ lastFetchTime = <<>>
  /\ inflight = SetToBag({Msg("fetchScore", "init", NullBody, NullNote, <<>>)})
  /\ placedNotes = <<>>
  /\ borderColor = ""
  /\ dragging = NoDrag

\* No call of buildMeasureNotes / displayAccidental under way
NoResult == [done |-> FALSE, notes |-> <<>>]

BmIdle ==
  /\ bm_notes = <<>> /\ bm_clef = "treble" /\ bm_beatsPerMeasure = beatsNum
  /\ bm_result = NoResult

DaIdle ==
  /\ da_pitch = <<"F", "4">> /\ da_keyAccidentals = getKeyAccidentals("D")
  /\ da_result = "unset"

\* No use of the coordinate helpers under way
NoArgs == [fn |-> "none"]
NoReturn == [done |-> FALSE]

FnIdle == args = NoArgs /\ result = NoReturn

Init == SysInit /\ NavIdle /\ BmIdle /\ DaIdle /\ FnIdle /\ PbIdle

\* The views' harness variables stay as they are in the application
U == UNCHANGED <<bmvars, davars, fnvars, pbvars, navvars>>

\* No request of a gesture is under way (polls are the timer's)
Idle == \A m \in Pending : m.op = "fetchNotesSince"

BootStep == \E m \in Pending : InitDone(m) /\ U

\* A gesture of a user who waits for the answer to the last one
EditorStep ==
  \/ \E c \in EditorInputs :
       Idle /\ EditorClick(c[1], c[2], c[3], c[4]) /\ U
  \/ BorderTimeout /\ U
  \/ Idle /\ Undo /\ U
  \/ \E m \in Pending : PlaceNoteDone(m) /\ U
  \/ \E m \in Pending : UndoDone(m) /\ U
  \/ \E m \in Pending : DeleteExistingDone(m) /\ U

BeginnerStep ==
  \/ \E id \in 1..MaxNotes : Idle /\ BeginnerClickBlock(id) /\ U
  \/ \E b \in BeginnerBeatInputs, p \in BeginnerPitchInputs :
       Idle /\ BeginnerClickEmpty(b, p) /\ U
  \/ \E m \in Pending : BeginnerDeleteDone(m) /\ U
  \/ \E m \in Pending : BeginnerAddDone(m) /\ U

ResizeStep ==
  \/ \E id \in 1..MaxNotes : Idle /\ MouseDownHandle(id) /\ U
  \/ \E k \in DragInputs : DragMove(k) /\ U
  \/ Idle /\ MouseUp /\ U
  \/ \E m \in Pending : ResizeDone(m) /\ U
  \/ MouseLeave /\ U

NetStep ==
  \/ \E m \in Pending : ServerHandle(m) /\ U
  \/ \E m \in Pending : NetworkFail(m) /\ U

OtherStep ==
  \/ \E b \in OtherNoteInputs : OtherCreate(b) /\ U
  \/ \E id \in 1..MaxNotes : OtherDelete(id) /\ U
  \/ \E id \in 1..MaxNotes, d \in OtherDurInputs : OtherUpdate(id, d) /\ U

\* An editing session: one user, one gesture at a time, beside another
\* contributor who adds notes
Next ==
  \/ BootStep \/ EditorStep \/ BeginnerStep \/ NetStep
  \/ \E b \in OtherNoteInputs : OtherCreate(b) /\ U

Spec == Init /\ [][Next]_vars

-----------------------------------------------------------------------------
(* An editing session on a score that holds a note whose duration is no    *)
(* name of DUR_TO_BEATS (the create route stores any duration it is sent)   *)

UnknownDurationInputs ==
  {NoteData(instrumentId, <<"G", "4">>, currentMeasure, 4 * BeatUnit, "bogus",
            FALSE, OtherSession)}

UnknownNext ==
  \/ BootStep \/ EditorStep \/ BeginnerStep \/ NetStep
  \/ \E b \in UnknownDurationInputs : OtherCreate(b) /\ U

UnknownSpec == Init /\ [][UnknownNext]_vars

-----------------------------------------------------------------------------
(* One client working alone whose user does not wait for the answer to a   *)
(* click before the next click                                             *)

\* Clicks on the editor's staff with the half note selected
RaceEditorInputs ==
  {<<0, "half", "half", FALSE>>, <<XRes \div 2, "half", "half", FALSE>>}

RaceStep ==
  \/ \E c \in RaceEditorInputs : EditorClick(c[1], c[2], c[3], c[4]) /\ U
  \/ BorderTimeout /\ U
  \/ \E m \in Pending : PlaceNoteDone(m) /\ U
  \/ \E m \in Pending : DeleteExistingDone(m) /\ U
  \/ \E b \in BeginnerBeatInputs, p \in BeginnerPitchInputs :
       BeginnerClickEmpty(b, p) /\ U
  \/ \E m \in Pending : BeginnerAddDone(m) /\ U

RaceNext == BootStep \/ RaceStep \/ NetStep

RaceSpec == Init /\ [][RaceNext]_vars

-----------------------------------------------------------------------------
(* One client working alone in the beginner view: blocks placed, removed   *)
(* and resized by dragging their handle, one gesture at a time             *)

ResizeNext == BootStep \/ BeginnerStep \/ ResizeStep \/ NetStep

ResizeSpec == Init /\ [][ResizeNext]_vars

-----------------------------------------------------------------------------
(* app.js, editor.js: the measure the application shows and the measure    *)
(* the editor is open on                                                   *)

\* The variables of the client other than the undo stack
sysrest == <<db_notes, uuidCount, clock, booted, scoreNotes, lastFetchTime,
             inflight, borderColor, dragging>>
W == UNCHANGED <<bmvars, davars, fnvars>>

\* NoteEditor.open(instrumentId, instrumentName, clef, measure)
open(measure) ==
  /\ ed_measure' = measure
  /\ placedNotes' = <<>>
  /\ isOpen' = TRUE

\* NoteEditor.close()
close ==
  /\ isOpen' = FALSE
  /\ UNCHANGED <<ed_measure, placedNotes>>

\* NoteEditor.prevMeasure()
prevMeasure ==
  /\ IF ed_measure > 1
     THEN ed_measure' = ed_measure - 1 /\ placedNotes' = <<>>
     ELSE UNCHANGED <<ed_measure, placedNotes>>
  /\ UNCHANGED isOpen

\* nextMeasure() without its test against total_measures
nextMeasureUnbounded ==
  /\ ed_measure' = ed_measure + 1 /\ placedNotes' = <<>>
  /\ UNCHANGED isOpen

\* NoteEditor.nextMeasure()
nextMeasure ==
  /\ IF ed_measure < total_measures
     THEN ed_measure' = ed_measure + 1 /\ placedNotes' = <<>>
     ELSE UNCHANGED <<ed_measure, placedNotes>>
  /\ UNCHANGED isOpen

\* The click handler of #prev-btn
PrevBtn ==
  /\ app_currentMeasure' =
       IF app_currentMeasure > 1 THEN app_currentMeasure - 1
       ELSE app_currentMeasure
  /\ UNCHANGED <<currentMode, isOpen, ed_measure, placedNotes>>

\* The click handler of #next-btn
NextBtn ==
  /\ app_currentMeasure' =
       IF app_currentMeasure < total_measures THEN app_currentMeasure + 1
       ELSE app_currentMeasure
  /\ UNCHANGED <<currentMode, isOpen, ed_measure, placedNotes>>

\* keydown ArrowLeft
KeyArrowLeft ==
  IF currentMode = "advanced" /\ isOpen
  THEN prevMeasure /\ UNCHANGED <<app_currentMeasure, currentMode>>
  ELSE PrevBtn

\* keydown ArrowRight
KeyArrowRight ==
  IF currentMode = "advanced" /\ isOpen
  THEN nextMeasure /\ UNCHANGED <<app_currentMeasure, currentMode>>
  ELSE NextBtn

\* The click handlers of #editor-prev-measure and #editor-next-measure, on
\* the overlay of the open editor
EditorPrevBtn ==
  isOpen /\ prevMeasure /\ UNCHANGED <<app_currentMeasure, currentMode>>
EditorNextBtn ==
  isOpen /\ nextMeasure /\ UNCHANGED <<app_currentMeasure, currentMode>>

\* The click handler of #score: hitTest returns a stave of staveMap, whose
\* measures are 1..total_measures
ScoreClick(hitMeasure) ==
  /\ currentMode = "advanced" /\ ~isOpen
  /\ open(hitMeasure)
  /\ UNCHANGED <<app_currentMeasure, currentMode>>

\* keydown e
KeyE ==
  /\ currentMode = "advanced" /\ ~isOpen
  /\ open(app_currentMeasure)
  /\ UNCHANGED <<app_currentMeasure, currentMode>>

\* keydown Escape, #editor-close, a click on the overlay
KeyEscape ==
  /\ currentMode = "advanced" /\ isOpen
  /\ close
  /\ UNCHANGED <<app_currentMeasure, currentMode>>

\* The click handlers of #mode-beginner and #mode-advanced: applyMode(mode)
ModeToggle(mode) ==
  /\ currentMode # mode
  /\ currentMode' = mode
  /\ IF mode = "beginner" /\ isOpen THEN close
     ELSE UNCHANGED <<isOpen, ed_measure, placedNotes>>
  /\ UNCHANGED app_currentMeasure

\* The capacity test of _placeNote in the measure the editor is open on
PlaceBlockedIn(notes, measure, beat, selDuration) ==
  LET existingNotes == NotesOf(notes, instrumentId, measure)
      usedBeats == UsedBeats(existingNotes)
      newNoteBeats == JsOr(DUR_TO_BEATS(selDuration), BeatUnit)
  IN  \/ usedBeats + newNoteBeats > beatsNum * BeatUnit
      \/ beat + newNoteBeats - BeatUnit > beatsNum * BeatUnit

\* _placeNote(pitch, beat) up to its await, in the measure the editor is
\* open on
placeNoteIn(measure, pitch, beat, selDuration, rest) ==
  IF PlaceBlockedIn(scoreNotes, measure, beat, selDuration)
  THEN /\ borderColor' = "#c44"
       /\ UNCHANGED inflight
  ELSE /\ Send(Msg("addNote", "_placeNote",
                   NoteData(instrumentId, pitch, measure, beat, selDuration,
                            rest, ThisSession),
                   NullNote, <<>>))
       /\ UNCHANGED borderColor

\* The click handler of the open editor's staff
EditorClickIn(x, selDuration) ==
  /\ booted = "ready" /\ isOpen
  /\ LET beat == xToBeat(x, selDuration, beatsNum)
         existing == NoteAtBeat(scoreNotes, instrumentId, ed_measure, beat)
     IN  IF existing # 0
         THEN deleteExistingNote(scoreNotes[existing])
         ELSE placeNoteIn(ed_measure, EditorPitch, beat, selDuration, FALSE)
  /\ UNCHANGED <<db_notes, uuidCount, clock, booted, scoreNotes, lastFetchTime,
                 placedNotes, dragging, navvars>>

\* _placeNote after its await, with the onNoteAdded of app.js
PlaceNoteAdded(m) ==
  /\ PlaceNoteDone(m)
  /\ app_currentMeasure' =
       IF m.stage = "ok" THEN Parse(m.rows[1]).measure ELSE app_currentMeasure
  /\ UNCHANGED <<currentMode, isOpen, ed_measure>>

\* togglePlayback() of app.js: play(scoreData, currentMeasure)
KeySpace == TogglePlayback(app_currentMeasure)

\* tick() of _animateMeasure with the onMeasureChange of app.js
FrameMeasureChange(f) ==
  /\ AnimationFrame(f)
  /\ app_currentMeasure' =
       IF ~playing THEN app_currentMeasure
       ELSE IF ~playing' THEN startMeasure
       ELSE lastTick'.measure
  /\ UNCHANGED <<currentMode, isOpen, ed_measure>>

-----------------------------------------------------------------------------
(* One client moving through the score: the transport buttons, the arrow   *)
(* keys, the editor opened, moved and closed, notes placed, playback       *)

MaxNavNotes == 1
MaxNavClockSteps == 2
HitMeasureInputs == {1, total_measures}
NavPlayFromInputs == {total_measures - 1, total_measures}
NavClickInputs == {<<0, "quarter">>}

Ready == booted = "ready" /\ Idle

NavStep ==
  \/ Ready /\ PrevBtn /\ UNCHANGED sysrest /\ W /\ UNCHANGED pbvars
  \/ Ready /\ NextBtn /\ UNCHANGED sysrest /\ W /\ UNCHANGED pbvars
  \/ Ready /\ KeyArrowLeft /\ UNCHANGED sysrest /\ W /\ UNCHANGED pbvars
  \/ Ready /\ KeyArrowRight /\ UNCHANGED sysrest /\ W /\ UNCHANGED pbvars
  \/ Ready /\ EditorPrevBtn /\ UNCHANGED sysrest /\ W /\ UNCHANGED pbvars
  \/ Ready /\ EditorNextBtn /\ UNCHANGED sysrest /\ W /\ UNCHANGED pbvars
  \/ \E h \in HitMeasureInputs :
       Ready /\ ScoreClick(h) /\ UNCHANGED sysrest /\ W /\ UNCHANGED pbvars
  \/ Ready /\ KeyE /\ UNCHANGED sysrest /\ W /\ UNCHANGED pbvars
  \/ Ready /\ KeyEscape /\ UNCHANGED sysrest /\ W /\ UNCHANGED pbvars
  \/ \E mode \in {"beginner", "advanced"} :
       Ready /\ ModeToggle(mode) /\ UNCHANGED sysrest /\ W /\ UNCHANGED pbvars

\* Notes are placed in the last measure, on beats that hold no note yet
NavPlaceStep ==
  \/ \E c \in NavClickInputs :
       /\ Ready /\ uuidCount < MaxNavNotes
       /\ ed_measure = total_measures
       /\ NoteAtBeat(scoreNotes, instrumentId, ed_measure,
                     xToBeat(c[1], c[2], beatsNum)) = 0
       /\ EditorClickIn(c[1], c[2]) /\ W /\ UNCHANGED pbvars
  \/ \E m \in Pending : PlaceNoteAdded(m) /\ W /\ UNCHANGED pbvars

\* Playback is started at one of the last two measures
NavPlayStep ==
  \/ /\ Ready
     /\ playing \/ app_currentMeasure \in NavPlayFromInputs
     /\ KeySpace /\ UNCHANGED <<sysvars, navvars>> /\ W
  \/ \E f \in frames :
       FrameMeasureChange(f) /\ UNCHANGED sysvars /\ W
  \/ /\ currentTime < MaxNavClockSteps * ClockStep
     /\ ClockAdvance /\ UNCHANGED <<sysvars, navvars>> /\ W

NavNext == BootStep \/ NavStep \/ NavPlaceStep \/ NavPlayStep \/ NetStep

NavSpec == Init /\ [][NavNext]_vars

-----------------------------------------------------------------------------
(* One client in the editor: notes placed in the first measure, removed   *)
(* by a click on them and undone, a placement refused for want of room,    *)
(* the editor opened, moved and closed, requests that fail                 *)

MaxUndoNotes == 2
UndoClickInputs == {<<0, "quarter">>, <<XRes \div 2, "half">>, <<0, "whole">>}

\* keydown Ctrl+Z and #undo-btn: undo() up to its await, or to its return
\* when the stack is empty; args keeps what the caller saw
KeyUndo ==
  /\ booted = "ready" /\ isOpen
  /\ args' = [fn |-> "undo", placedNotes |-> placedNotes,
              notes |-> scoreNotes]
  /\ IF placedNotes = <<>>
     THEN /\ result' = [done |-> TRUE, sent |-> FALSE, ok |-> FALSE]
          /\ UNCHANGED sysvars
     ELSE /\ result' = NoReturn
          /\ Undo
  /\ UNCHANGED <<bmvars, davars, pbvars, navvars>>

\* undo() after its await
UndoReturn(m) ==
  /\ UndoDone(m)
  /\ result' = [done |-> TRUE, sent |-> TRUE, ok |-> m.stage = "ok"]
  /\ UNCHANGED <<args, bmvars, davars, pbvars, navvars>>

UndoStep ==
  \/ \E c \in UndoClickInputs :
       /\ Ready /\ uuidCount < MaxUndoNotes
       /\ ed_measure = 1
       /\ EditorClickIn(c[1], c[2]) /\ W /\ UNCHANGED pbvars
  \/ BorderTimeout /\ U
  \/ Ready /\ KeyUndo
  \/ \E m \in Pending : PlaceNoteAdded(m) /\ W /\ UNCHANGED pbvars
  \/ \E m \in Pending : UndoReturn(m)
  \/ \E m \in Pending : DeleteExistingDone(m) /\ U

UndoNavStep ==
  \/ Ready /\ EditorPrevBtn /\ UNCHANGED sysrest /\ W /\ UNCHANGED pbvars
  \/ Ready /\ EditorNextBtn /\ UNCHANGED sysrest /\ W /\ UNCHANGED pbvars
  \/ \E h \in HitMeasureInputs :
       Ready /\ ScoreClick(h) /\ UNCHANGED sysrest /\ W /\ UNCHANGED pbvars
  \/ Ready /\ KeyE /\ UNCHANGED sysrest /\ W /\ UNCHANGED pbvars
  \/ Ready /\ KeyEscape /\ UNCHANGED sysrest /\ W /\ UNCHANGED pbvars
  \/ \E mode \in {"beginner", "advanced"} :
       Ready /\ ModeToggle(mode) /\ UNCHANGED sysrest /\ W /\ UNCHANGED pbvars

UndoNext == BootStep \/ UndoStep \/ UndoNavStep \/ NetStep

UndoSpec == Init /\ [][UndoNext]_vars

-----------------------------------------------------------------------------
(* The client kept in step with the store: the polling timer and the clock *)
(* beside a few gestures                                                   *)

\* Clicks of this session: a quarter note at beat 1 on the editor's staff
SyncEditorInputs == {<<0, "quarter", "quarter", FALSE>>}
SyncDragInputs == {1}
SyncOtherInputs == {b \in OtherNoteInputs : b.duration = "half"}

\* The timer fires again only after the last poll was answered
PollStep ==
  \/ (\A m \in Pending : m.op # "fetchNotesSince") /\ PollSend /\ U
  \/ \E m \in Pending : PollDone(m) /\ U

SyncGestureStep ==
  \/ \E c \in SyncEditorInputs :
       Idle /\ EditorClick(c[1], c[2], c[3], c[4]) /\ U
  \/ BorderTimeout /\ U
  \/ \E m \in Pending : PlaceNoteDone(m) /\ U
  \/ \E m \in Pending : DeleteExistingDone(m) /\ U
  \/ \E id \in 1..MaxNotes : Idle /\ MouseDownHandle(id) /\ U
  \/ \E k \in SyncDragInputs : DragMove(k) /\ U
  \/ Idle /\ MouseUp /\ U
  \/ \E m \in Pending : ResizeDone(m) /\ U

\* The network and the store, which takes no more than MaxSyncNotes notes
SyncNetStep ==
  \/ \E m \in Pending :
       /\ m.op = "addNote" => uuidCount < MaxSyncNotes
       /\ ServerHandle(m) /\ U
  \/ \E m \in Pending : NetworkFail(m) /\ U

SyncNext ==
  \/ BootStep \/ PollStep \/ SyncGestureStep \/ SyncNetStep
  \/ \E b \in SyncOtherInputs :
       uuidCount < MaxSyncNotes /\ OtherCreate(b) /\ U
  \/ Tick /\ U

SyncSpec == Init /\ [][SyncNext]_vars

-----------------------------------------------------------------------------
(* Polling alone, with a store that always answers: another contributor   *)
(* adds notes, this client only polls.  The timer keeps firing, the server *)
(* answers every request, every response is received, time passes.         *)

LiveServerStep == \E m \in Pending : ServerHandle(m) /\ U

LiveNext ==
  \/ BootStep \/ PollStep \/ LiveServerStep
  \/ \E b \in OtherNoteInputs :
       uuidCount < MaxSyncNotes /\ OtherCreate(b) /\ U
  \/ Tick /\ U

LiveSpec ==
  /\ Init /\ [][LiveNext]_vars
  /\ WF_vars(BootStep) /\ WF_vars(PollStep) /\ WF_vars(LiveServerStep)
  /\ WF_vars(Tick /\ U)

-----------------------------------------------------------------------------
(* Polling beside a contributor who adds, resizes and removes notes, with  *)
(* a store that always answers                                             *)

ConvergeNext ==
  \/ BootStep \/ PollStep \/ LiveServerStep
  \/ \E b \in OtherNoteInputs :
       uuidCount < MaxSyncNotes /\ OtherCreate(b) /\ U
  \/ \E id \in 1..MaxSyncNotes : OtherDelete(id) /\ U
  \/ \E id \in 1..MaxSyncNotes, d \in OtherDurInputs :
       OtherUpdate(id, d) /\ U
  \/ Tick /\ U

ConvergeSpec ==
  /\ Init /\ [][ConvergeNext]_vars
  /\ WF_vars(BootStep) /\ WF_vars(PollStep) /\ WF_vars(LiveServerStep)
  /\ WF_vars(Tick /\ U)

-----------------------------------------------------------------------------
(* renderer.js: one call of displayAccidental on any pitch and key map *)

PitchInputs ==
  {<<l, "4">> : l \in Letters} \cup
  {<<l, a, "4">> : l \in Letters, a \in {"#", "b"}}

KeyMapInputs == [Letters -> {"", "#", "b"}]

AccidentalInit ==
  /\ SysInit /\ NavIdle /\ BmIdle /\ FnIdle /\ PbIdle
  /\ da_pitch \in PitchInputs
  /\ da_keyAccidentals \in KeyMapInputs
  /\ da_result = "unset"

DisplayAccidentalCall ==
  /\ da_result = "unset"
  /\ da_result' = displayAccidental(da_pitch, da_keyAccidentals)
  /\ UNCHANGED <<da_pitch, da_keyAccidentals, sysvars, bmvars, fnvars, pbvars, navvars>>

AccidentalNext == DisplayAccidentalCall

AccidentalSpec == AccidentalInit /\ [][AccidentalNext]_vars

-----------------------------------------------------------------------------
(* renderer.js: one call of buildMeasureNotes on any small measure *)

MeasureBeatInputs ==
  {BeatUnit, BeatUnit + BeatUnit \div 8, BeatUnit + BeatUnit \div 2,
   2 * BeatUnit, 3 * BeatUnit, 4 * BeatUnit}

MeasureNoteInputs ==
  {[id |-> 0, pitch |-> <<"F", "4">>, beat |-> b, duration |-> d, is_rest |-> r] :
     b \in MeasureBeatInputs, d \in DurationNames \cup {"bogus"}, r \in {0, 1}}

MeasureInit ==
  /\ SysInit /\ NavIdle /\ DaIdle /\ FnIdle /\ PbIdle
  /\ bm_clef \in {"treble", "bass"}
  /\ bm_beatsPerMeasure \in 2..MaxBeatsNum
  /\ \E n \in 0..MaxMeasureNotes :
       \E s \in [1..n -> MeasureNoteInputs] :
         bm_notes = [i \in 1..n |-> [s[i] EXCEPT !.id = i]]
  /\ bm_result = NoResult

BuildMeasureCall ==
  /\ ~bm_result.done
  /\ bm_result' =
       [done |-> TRUE,
        notes |-> buildMeasureNotes(bm_notes, bm_clef, getKeyAccidentals("D"),
                                    bm_beatsPerMeasure)]
  /\ UNCHANGED <<bm_notes, bm_clef, bm_beatsPerMeasure, sysvars, davars,
                 fnvars, pbvars, navvars>>

MeasureNext == BuildMeasureCall

MeasureSpec == MeasureInit /\ [][MeasureNext]_vars

-----------------------------------------------------------------------------
(* renderer.js: one call of buildMeasureNotes on the notes of a measure    *)
(* that start on different beats, handed over in any order                 *)

MaxOrderNotes == 3
OrderDurInputs == {"quarter", "half"}

\* The notes of a measure: at most one on a beat, the id telling the beat
OrderMeasures ==
  UNION {[beats -> OrderDurInputs \X {0, 1}] :
           beats \in {b \in SUBSET MeasureBeatInputs :
                        Cardinality(b) <= MaxOrderNotes}}

\* The injective maps of 1..n onto 1..n
Orderings(n) ==
  {p \in [1..n -> 1..n] : \A i, j \in 1..n : p[i] = p[j] => i = j}

\* The sequences that hold each note of the measure once
OrderedNotes(measure) ==
  LET beats == DOMAIN measure
      NoteAt(b) == [id |-> b, pitch |-> <<"F", "4">>, beat |-> b,
                    duration |-> measure[b][1], is_rest |-> measure[b][2]]
  IN  {s \in [1..Cardinality(beats) -> {NoteAt(b) : b \in beats}] :
         \A i, j \in DOMAIN s : s[i] = s[j] => i = j}

OrderInit ==
  /\ SysInit /\ NavIdle /\ DaIdle /\ FnIdle /\ PbIdle
  /\ bm_clef \in {"treble", "bass"}
  /\ bm_beatsPerMeasure = beatsNum
  /\ \E measure \in OrderMeasures : bm_notes \in OrderedNotes(measure)
  /\ bm_result = NoResult

OrderNext == BuildMeasureCall

OrderSpec == OrderInit /\ [][OrderNext]_vars

-----------------------------------------------------------------------------
(* renderer.js: one call of pushRests on a gap, beside one call of          *)
(* buildMeasureNotes on an empty measure or on a half note at beat 1        *)

MaxGapEighths == 32      \* the longest gap tried, in eighths of a beat

\* The gaps between a cursor and a beat on the half-sixteenth grid
GapInputs == {k * (BeatUnit \div 8) : k \in 1..MaxGapEighths}
RestClefInputs == {"treble", "alto", "bass", "tenor"}

HalfNoteAtOne ==
  [id |-> 1, pitch |-> <<"F", "4">>, beat |-> BeatUnit, duration |-> "half",
   is_rest |-> 0]

RestInit ==
  /\ SysInit /\ NavIdle /\ DaIdle /\ PbIdle
  /\ bm_clef = "treble"
  /\ bm_beatsPerMeasure \in 2..MaxBeatsNum
  /\ bm_notes \in {<<>>, <<HalfNoteAtOne>>}
  /\ bm_result = NoResult
  /\ \E g \in GapInputs, c \in RestClefInputs :
       args = [fn |-> "pushRests", beats |-> g, clef |-> c]
  /\ result = NoReturn

PushRestsCall ==
  /\ ~result.done
  /\ result' = [done |-> TRUE, rests |-> pushRests(args.beats, args.clef)]
  /\ UNCHANGED <<args, sysvars, bmvars, davars, pbvars, navvars>>

RestNext ==
  \/ PushRestsCall
  \/ BuildMeasureCall

RestSpec == RestInit /\ [][RestNext]_vars

-----------------------------------------------------------------------------
(* editor.js: the editor opened on a score in some key and clef, and one   *)
(* pitch taken to its staff position and back                              *)

\* The fifteen major keys of getKeyAccidentals and names it does not know
KeyInputs ==
  {"C", "G", "D", "A", "E", "B", "F#", "C#",
   "F", "Bb", "Eb", "Ab", "Db", "Gb", "Cb", "H", "Am", "c", ""}
ClefInputs == {"treble", "alto", "bass", "tenor"}
RepresentablePitches ==
  {<<l, o>> : l \in Letters, o \in Digits} \cup
  {<<l, a, o>> : l \in Letters, a \in {"#", "b"}, o \in Digits}

PitchInit ==
  /\ SysInit /\ NavIdle /\ BmIdle /\ DaIdle /\ PbIdle
  /\ args \in [key : KeyInputs, clef : ClefInputs, pitch : RepresentablePitches]
  /\ result = NoReturn

\* NoteEditor.open computes the key map; the pitch goes through
\* pitchToLinePos and comes back through linePosToPitch
PitchRoundTripCall ==
  /\ ~result.done
  /\ LET keyAccidentals == getKeyAccidentals(args.key)
         linePos == pitchToLinePos(args.pitch, args.clef)
     IN  result' = [done |-> TRUE, keyAccidentals |-> keyAccidentals,
                    linePos |-> linePos,
                    pitch |-> linePosToPitch(linePos, args.clef, keyAccidentals)]
  /\ UNCHANGED <<args, sysvars, bmvars, davars, pbvars, navvars>>

PitchNext == PitchRoundTripCall

PitchSpec == PitchInit /\ [][PitchNext]_vars

-----------------------------------------------------------------------------
(* editor.js: the pitch under the pointer, placed with the toolbar's       *)
(* accidental and drawn from what the store returned                       *)

OverridePosInputs == -4..12
AccidentalInputs == {"null", "sharp", "flat", "natural"}

OverrideInit ==
  /\ SysInit /\ NavIdle /\ BmIdle /\ DaIdle /\ PbIdle
  /\ args \in [key : KeyInputs, clef : ClefInputs,
               linePos : OverridePosInputs,
               selectedAccidental : AccidentalInputs, restMode : BOOLEAN]
  /\ result = NoReturn

\* The ghost's pitch, the note _placeNote sends for it, the row the create
\* route answers with, and the accidentals drawn for both
PlaceOverrideCall ==
  /\ ~result.done
  /\ LET keyAccidentals == getKeyAccidentals(args.key)
         pitch == linePosToPitch(args.linePos, args.clef, keyAccidentals)
         noteData ==
           [NoteData(instrumentId,
                     finalPitch(pitch, args.selectedAccidental, args.restMode),
                     currentMeasure, BeatUnit, "quarter", args.restMode,
                     ThisSession)
              EXCEPT !.accidental = args.selectedAccidental]
         saved == Parse(PostNotes({}, noteData, 1, 0).note)
     IN  result' = [done |-> TRUE, keyAccidentals |-> keyAccidentals,
                    ghost |-> pitch,
                    ghostShown |-> displayAccidental(pitch, keyAccidentals),
                    saved |-> saved,
                    savedShown |->
                      displayAccidental(saved.pitch, keyAccidentals)]
  /\ UNCHANGED <<args, sysvars, bmvars, davars, pbvars, navvars>>

OverrideNext == PlaceOverrideCall

OverrideSpec == OverrideInit /\ [][OverrideNext]_vars

-----------------------------------------------------------------------------
(* editor.js: one mousemove over the editor's staff *)

StaveInputs ==
  {[topY |-> 40, botY |-> 80, noteStartX |-> 60, noteEndX |-> 300],
   [topY |-> 0, botY |-> 80, noteStartX |-> 0, noteEndX |-> 480]}
GhostKeyInputs == {"D", "C", "Bb"}
MaxPointerY == 100
PointerYInputs == -10..MaxPointerY
PointerXInputs == {0, 60, 180, 299, 480}

GhostInit ==
  /\ SysInit /\ NavIdle /\ BmIdle /\ DaIdle /\ PbIdle
  /\ args \in [stave : StaveInputs, clef : {"treble", "alto", "bass"},
               key : GhostKeyInputs, mx : PointerXInputs,
               my : PointerYInputs, selectedDuration : {"quarter"},
               beatsNum : {beatsNum}]
  /\ result = NoReturn

\* The mousemove handler: the ghost note under the pointer
MouseMove ==
  /\ ~result.done
  /\ LET stave == args.stave
         clampedX == Max(stave.noteStartX, Min(args.mx, stave.noteEndX))
         linePos == yToLinePos(args.my, stave)
         beat == xToBeatOn(clampedX, stave, args.selectedDuration, args.beatsNum)
     IN  result' = [done |-> TRUE,
                    pitch |-> linePosToPitch(linePos, args.clef,
                                             getKeyAccidentals(args.key)),
                    beat |-> beat, linePos |-> linePos,
                    x |-> snapX(beat, stave, args.beatsNum),
                    y |-> snapY(linePos, stave)]
  /\ UNCHANGED <<args, sysvars, bmvars, davars, pbvars, navvars>>

GhostNext == MouseMove

GhostSpec == GhostInit /\ [][GhostNext]_vars

-----------------------------------------------------------------------------
(* editor.js: a beat taken to its x on the staff and back *)

SnapBeatInputs == {BeatUnit + k * (BeatUnit \div 4) : k \in 0..(4 * MaxBeatsNum)}

SnapInit ==
  /\ SysInit /\ NavIdle /\ BmIdle /\ DaIdle /\ PbIdle
  /\ args \in [stave : StaveInputs, beatsNum : 2..MaxBeatsNum,
               selectedDuration : DurationNames \cup {"bogus"},
               beat : SnapBeatInputs]
  /\ result = NoReturn

SnapRoundTripCall ==
  /\ ~result.done
  /\ LET x == snapX(args.beat, args.stave, args.beatsNum)
     IN  result' = [done |-> TRUE, x |-> x,
                    beat |-> xToBeatOn(x, args.stave, args.selectedDuration,
                                       args.beatsNum)]
  /\ UNCHANGED <<args, sysvars, bmvars, davars, pbvars, navvars>>

SnapNext == SnapRoundTripCall

SnapSpec == SnapInit /\ [][SnapNext]_vars

-----------------------------------------------------------------------------
(* editor.js: one call of _xToBeat for a pointer anywhere on or beside the *)
(* staff                                                                   *)

MaxGridSteps == 40
GridXInputs == {13 * k - 26 : k \in 0..MaxGridSteps}

GridInit ==
  /\ SysInit /\ NavIdle /\ BmIdle /\ DaIdle /\ PbIdle
  /\ args \in [stave : StaveInputs, beatsNum : 2..MaxBeatsNum,
               selectedDuration : DurationNames \cup {"bogus"},
               x : GridXInputs]
  /\ result = NoReturn

XToBeatCall ==
  /\ ~result.done
  /\ result' = [done |-> TRUE,
                beat |-> xToBeatOn(args.x, args.stave, args.selectedDuration,
                                   args.beatsNum)]
  /\ UNCHANGED <<args, sysvars, bmvars, davars, pbvars, navvars>>

GridNext == XToBeatCall

GridSpec == GridInit /\ [][GridNext]_vars

-----------------------------------------------------------------------------
(* beginner-renderer.js: a pointer height taken to a pitch, and a pitch    *)
(* taken to its height and back                                            *)

MaxLineSpacing == 4
BeginnerTopInputs == {0, 30}
BeginnerYInputs == -20..60

BeginnerPitchInit ==
  /\ SysInit /\ NavIdle /\ BmIdle /\ DaIdle /\ PbIdle
  /\ args \in [topY : BeginnerTopInputs, lineSpacing : 1..MaxLineSpacing,
               pitch : Range(BEGINNER_PITCHES), y : BeginnerYInputs]
  /\ result = NoReturn

\* yToPitch(y) as _getPos calls it, and yToPitch(pitchToY(pitch))
YToPitchCall ==
  /\ ~result.done
  /\ LET py == pitchToY(args.pitch, args.topY, args.lineSpacing)
     IN  result' = [done |-> TRUE,
                    pitch |-> yToPitch(args.y, args.topY, args.lineSpacing),
                    py |-> py,
                    back |-> yToPitch(py, args.topY, args.lineSpacing)]
  /\ UNCHANGED <<args, sysvars, bmvars, davars, pbvars, navvars>>

BeginnerPitchNext == YToPitchCall

BeginnerPitchSpec == BeginnerPitchInit /\ [][BeginnerPitchNext]_vars

-----------------------------------------------------------------------------
(* playback.js driven by app.js: the play and stop controls, the mute and  *)
(* solo toggles, the frame clock and the audio clock, on any small score   *)

PlayNoteInputs ==
  {[instrument_id |-> "violin1", pitch |-> <<"D", "5">>, measure |-> 2,
    beat |-> 3 * BeatUnit, duration |-> "quarter", is_rest |-> 0],
   [instrument_id |-> "violin1", pitch |-> <<"A", "4">>, measure |-> 1,
    beat |-> BeatUnit, duration |-> "sixteenth", is_rest |-> 0],
   [instrument_id |-> "violin1", pitch |-> <<"B", "4">>, measure |-> 32,
    beat |-> BeatUnit, duration |-> "half", is_rest |-> 1],
   [instrument_id |-> "cello", pitch |-> <<"D", "3">>, measure |-> 32,
    beat |-> (5 * BeatUnit) \div 2, duration |-> "bogus", is_rest |-> 0]}
PlayInstrumentInputs == {"violin1", "cello"}
PlayFromInputs == {1, 2, total_measures}
TempoInputs == {60, 100}

\* The note lists of at most MaxPlayNotes notes, ids in order
PlayNotes ==
  UNION {{[i \in 1..n |-> [id |-> i,
                           instrument_id |-> s[i].instrument_id,
                           pitch |-> s[i].pitch, measure |-> s[i].measure,
                           beat |-> s[i].beat, duration |-> s[i].duration,
                           is_rest |-> s[i].is_rest]] :
            s \in [1..n -> PlayNoteInputs]} : n \in 0..MaxPlayNotes}

PlayInit ==
  /\ SysInit /\ NavIdle /\ BmIdle /\ DaIdle /\ FnIdle
  /\ PbConstructed
  /\ \E t \in TempoInputs, notes \in PlayNotes :
       pb_scoreData = [score |-> [SeedScore EXCEPT !.tempo = t],
                       notes |-> notes]

V == UNCHANGED <<sysvars, bmvars, davars, fnvars, navvars>>

PlayNext ==
  \/ \E m \in PlayFromInputs : TogglePlayback(m) /\ V
  \/ StopButton /\ V
  \/ \E i \in PlayInstrumentInputs : toggleMute(i) /\ V
  \/ \E i \in PlayInstrumentInputs : toggleSolo(i) /\ V
  \/ \E f \in frames : AnimationFrame(f) /\ V
  \/ ClockAdvance /\ V

PlaySpec == PlayInit /\ [][PlayNext]_vars

\* Playback left to itself: nobody stops it, every frame request is fired
\* and the audio clock keeps advancing; it is started only when the clock
\* of the model can reach its end
FrameStep == \E f \in frames : AnimationFrame(f) /\ V
ClockStepOn == ClockAdvance /\ V

PlayLiveNext ==
  \/ \E m \in PlayFromInputs :
       /\ ~playing
       /\ currentTime + TotalDuration(pb_scoreData.score, m)
            <= MaxClockSteps * ClockStep
       /\ play(m) /\ V
  \/ \E i \in PlayInstrumentInputs : toggleMute(i) /\ V
  \/ FrameStep
  \/ ClockStepOn

PlayLiveSpec ==
  PlayInit /\ [][PlayLiveNext]_vars /\ WF_vars(FrameStep) /\ WF_vars(ClockStepOn)

-----------------------------------------------------------------------------
(* Playback beside the views, which share scoreData with the engine: notes *)
(* are pushed to scoreData.notes and spliced out of it while it plays      *)

\* scoreData.notes.push(note) of the editor, the beginner view and the poll
NotePushed(note) ==
  /\ Len(pb_scoreData.notes) < MaxPlayNotes
  /\ \E id \in 1..MaxPlayNotes :
       /\ \A i \in 1..Len(pb_scoreData.notes) : pb_scoreData.notes[i].id # id
       /\ pb_scoreData' =
            [pb_scoreData EXCEPT
               !.notes = Append(@, [id |-> id,
                                    instrument_id |-> note.instrument_id,
                                    pitch |-> note.pitch,
                                    measure |-> note.measure,
                                    beat |-> note.beat,
                                    duration |-> note.duration,
                                    is_rest |-> note.is_rest])]
  /\ UNCHANGED <<playing, startTime, startMeasure, scheduledNodes,
                 mutedInstruments, soloInstrument, animFrame, totalDuration,
                 currentTime, frames, nodesStopped, scheduled, lastTick>>

\* scoreData.notes.splice(idx, 1) of the editor and the beginner view
NoteSpliced(idx) ==
  /\ idx \in 1..Len(pb_scoreData.notes)
  /\ pb_scoreData' =
       [pb_scoreData EXCEPT
          !.notes = SubSeq(@, 1, idx - 1) \o SubSeq(@, idx + 1, Len(@))]
  /\ UNCHANGED <<playing, startTime, startMeasure, scheduledNodes,
                 mutedInstruments, soloInstrument, animFrame, totalDuration,
                 currentTime, frames, nodesStopped, scheduled, lastTick>>

\* The notes the views push: one of each instrument, each held at most once
SharedNoteInputs ==
  {[instrument_id |-> "violin1", pitch |-> <<"A", "4">>, measure |-> 1,
    beat |-> BeatUnit, duration |-> "quarter", is_rest |-> 0],
   [instrument_id |-> "cello", pitch |-> <<"C", "3">>,
    measure |-> total_measures, beat |-> 3 * BeatUnit, duration |-> "half",
    is_rest |-> 0]}
SharedFromInputs == {1, total_measures}

SharedInit ==
  /\ SysInit /\ NavIdle /\ BmIdle /\ DaIdle /\ FnIdle
  /\ PbConstructed
  /\ pb_scoreData = [score |-> SeedScore, notes |-> <<>>]

SharedNext ==
  \/ \E m \in SharedFromInputs : TogglePlayback(m) /\ V
  \/ StopButton /\ V
  \/ \E i \in PlayInstrumentInputs : toggleMute(i) /\ V
  \/ \E i \in PlayInstrumentInputs : toggleSolo(i) /\ V
  \/ \E f \in frames : AnimationFrame(f) /\ V
  \/ currentTime < MaxNavClockSteps * ClockStep /\ ClockAdvance /\ V
  \/ \E n \in SharedNoteInputs :
       /\ \A i \in 1..Len(pb_scoreData.notes) :
            pb_scoreData.notes[i].instrument_id # n.instrument_id
       /\ NotePushed(n) /\ V
  \/ \E i \in 1..MaxPlayNotes : NoteSpliced(i) /\ V

SharedSpec == SharedInit /\ [][SharedNext]_vars

-----------------------------------------------------------------------------
(* The engine called directly: play() while playing or stopped, stop(),    *)
(* the frame callbacks and the audio clock in any order; args keeps what   *)
(* the engine was doing when it was last called                            *)

PlayCall(m) ==
  /\ play(m)
  /\ args' = [fn |-> "play", playing |-> playing, frames |-> frames]
  /\ UNCHANGED <<result, sysvars, bmvars, davars, navvars>>

StopCall ==
  /\ stop
  /\ args' = [fn |-> "stop", playing |-> playing, frames |-> frames]
  /\ UNCHANGED <<result, sysvars, bmvars, davars, navvars>>

LoopNext ==
  \/ \E m \in PlayFromInputs : PlayCall(m)
  \/ StopCall
  \/ \E f \in frames : AnimationFrame(f) /\ V
  \/ ClockAdvance /\ V

LoopSpec == PlayInit /\ [][LoopNext]_vars

-----------------------------------------------------------------------------
(* server.js alone: the store under the requests of any browser, one at a *)
(* time                                                                    *)

StoreSessions == {ThisSession, OtherSession, NoSession}

\* A note of a request, known by its id alone
NoteRef(id) == [NullNote EXCEPT !.id = id]

StoreRequests ==
  {Msg("fetchScore", "browser", NullBody, NullNote, <<>>)}
  \cup {Msg("addNote", "browser",
            NoteData(instrumentId, <<"G", "4">>, ms, BeatUnit, "quarter", FALSE, ss),
            NullNote, <<>>) :
          ms \in {currentMeasure, total_measures + 1}, ss \in StoreSessions}
  \cup {Msg("deleteNote", "browser", SessionBody(ss), NoteRef(id), <<>>) :
          id \in 1..MaxNotes, ss \in StoreSessions}
  \cup {Msg("updateNote", "browser",
            [NullBody EXCEPT !.pitch = <<"A", "4">>, !.beat = 2 * BeatUnit,
                             !.duration = "half"],
            NoteRef(id), <<>>) : id \in 1..MaxNotes}
  \cup {Msg("fetchNotesSince", "browser", NullBody, NullNote, toISOString(t)) :
          t \in 0..clock}

StoreInit ==
  /\ db_notes = {} /\ uuidCount = 0 /\ clock = 0
  /\ booted = "loading" /\ scoreNotes = <<>> /\ lastFetchTime = <<>>
  /\ inflight = EmptyBag
  /\ placedNotes = <<>> /\ borderColor = "" /\ dragging = NoDrag
  /\ BmIdle /\ DaIdle /\ FnIdle /\ PbIdle /\ NavIdle

\* A browser sends a request
Request(m) ==
  /\ inflight = EmptyBag
  /\ Send(m)
  /\ UNCHANGED <<db_notes, uuidCount, clock, booted, scoreNotes, lastFetchTime,
                 placedNotes, borderColor, dragging>>

\* The browser receives the response
Respond(m) ==
  /\ m \in Pending /\ m.stage \in {"ok", "err"}
  /\ Take(m)
  /\ UNCHANGED <<db_notes, uuidCount, clock, booted, scoreNotes, lastFetchTime,
                 placedNotes, borderColor, dragging>>

StoreNext ==
  \/ \E m \in StoreRequests : Request(m) /\ U
  \/ \E m \in Pending : ServerHandle(m) /\ U
  \/ \E m \in Pending : Respond(m) /\ U
  \/ Tick /\ U

StoreSpec == StoreInit /\ [][StoreNext]_vars

-----------------------------------------------------------------------------
(* server.js alone: the responses of the create, update and delete routes  *)

\* The bodies of PUT /api/notes/:id: the five columns of the update and,
\* beside them, fields the route does not read
UpdateInputs ==
  {[NullBody EXCEPT !.pitch = <<"F", "#", "5">>, !.beat = 3 * BeatUnit,
                    !.duration = "eighth", !.accidental = "#",
                    !.dynamic = "", !.measure = total_measures + 1,
                    !.instrument_id = "cello", !.is_rest = TRUE,
                    !.session_id = ss] :
     ss \in {ThisSession, OtherSession}}

\* The measures of POST /api/notes
MeasureInputs == {0, currentMeasure, total_measures + 1, NaN}

RouteRequests ==
  {Msg("addNote", "browser",
       NoteData(instrumentId, <<"G", "4">>, ms, BeatUnit, "quarter", FALSE, ss),
       NullNote, <<>>) :
     ms \in MeasureInputs, ss \in StoreSessions}
  \cup {Msg("deleteNote", "browser", SessionBody(ss), NoteRef(id), <<>>) :
          id \in 1..MaxNotes, ss \in StoreSessions}
  \cup {Msg("updateNote", "browser", body, NoteRef(id), <<>>) :
          id \in 1..MaxNotes, body \in UpdateInputs}

\* What the route of request m returns on the store as it stands
RouteResult(m) ==
  CASE m.op = "addNote" -> PostNotes(db_notes, m.body, uuidCount + 1, clock)
    [] m.op = "deleteNote" -> DeleteNotes(db_notes, m.note.id, m.body.session_id)
    [] m.op = "updateNote" -> PutNotes(db_notes, m.note.id, m.body)
    [] OTHER -> [status |-> 200, error |-> ""]

\* res.status(...).json(...): the status and the error of the body
HttpResponse(r) == [done |-> TRUE, status |-> r.status, error |-> r.error]

\* The server handles a request and sends its response
StoreHandle(m) ==
  /\ ServerHandle(m)
  /\ args' = [fn |-> m.op, id |-> m.note.id, session_id |-> m.body.session_id]
  /\ result' = HttpResponse(RouteResult(m))
  /\ UNCHANGED <<bmvars, davars, pbvars, navvars>>

RouteNext ==
  \/ \E m \in RouteRequests : Request(m) /\ U
  \/ \E m \in Pending : StoreHandle(m)
  \/ \E m \in Pending : Respond(m) /\ U

RouteSpec == StoreInit /\ [][RouteNext]_vars

-----------------------------------------------------------------------------
(* server.js alone: notes and rests created and deleted, and counted       *)

CountRequests ==
  {Msg("addNote", "browser",
       NoteData(instrumentId, <<"G", "4">>, ms, BeatUnit, "quarter", rest, ss),
       NullNote, <<>>) :
     ms \in {currentMeasure, total_measures + 1}, rest \in BOOLEAN,
     ss \in {ThisSession, OtherSession}}
  \cup {Msg("deleteNote", "browser", SessionBody(ss), NoteRef(id), <<>>) :
          id \in 1..MaxNotes, ss \in {ThisSession, OtherSession}}
  \cup {Msg("getCount", "browser", NullBody, NullNote, <<>>)}

\* The server handles a request; for the note count, args keeps the store
\* it was asked on and result the count it answered
CountHandle(m) ==
  /\ m \in Pending /\ m.stage = "req"
  /\ IF m.op = "getCount"
     THEN /\ Swap(m, Reply(m, <<>>))
          /\ args' = [fn |-> "getCount", db |-> db_notes]
          /\ result' = [done |-> TRUE, status |-> GetCount(db_notes).status,
                        count |-> GetCount(db_notes).count]
          /\ UNCHANGED <<db_notes, uuidCount, clock, booted, scoreNotes,
                         lastFetchTime, placedNotes, borderColor, dragging>>
     ELSE /\ ServerHandle(m)
          /\ args' = [fn |-> m.op, db |-> db_notes]
          /\ result' = NoReturn
  /\ UNCHANGED <<bmvars, davars, pbvars, navvars>>

CountNext ==
  \/ \E m \in CountRequests : Request(m) /\ U
  \/ \E m \in Pending : CountHandle(m)
  \/ \E m \in Pending : Respond(m) /\ U

CountSpec == StoreInit /\ [][CountNext]_vars

-----------------------------------------------------------------------------
(* Properties of the score functions *)

\* The beat-count a VexFlow duration code stands for ('hr' is a half rest)
VexBeats(duration) ==
  LET code == IF duration # <<>> /\ duration[Len(duration)] = "r"
              THEN SubSeq(duration, 1, Len(duration) - 1) ELSE duration
  IN  CASE code = <<"w">> -> 4 * BeatUnit
        [] code = <<"h">> -> 2 * BeatUnit
        [] code = <<"q">> -> BeatUnit
        [] code = <<"8">> -> BeatUnit \div 2
        [] code = <<"1", "6">> -> BeatUnit \div 4
        [] OTHER -> 0

OutputBeats == SumSeq([i \in 1..Len(bm_result.notes) |->
                         VexBeats(bm_result.notes[i].duration)])

\* The beat-count of a note handed to buildMeasureNotes
InputNoteBeats(n) == JsOr(DUR_TO_BEATS(n.duration), BeatUnit)

InputBeats == SumSeq([i \in 1..Len(bm_notes) |-> InputNoteBeats(bm_notes[i])])

SpansDisjoint ==
  \A i, j \in 1..Len(bm_notes) :
    i # j => \/ bm_notes[i].beat + InputNoteBeats(bm_notes[i]) <= bm_notes[j].beat
             \/ bm_notes[j].beat + InputNoteBeats(bm_notes[j]) <= bm_notes[i].beat

\* Every note starts on the sixteenth grid
OnSixteenthGrid ==
  \A i \in 1..Len(bm_notes) :
    (bm_notes[i].beat - BeatUnit) % (BeatUnit \div 4) = 0

\* Every note starts and ends inside the measure
SpansInMeasure ==
  \A i \in 1..Len(bm_notes) :
    /\ bm_notes[i].beat >= BeatUnit
    /\ bm_notes[i].beat + InputNoteBeats(bm_notes[i]) - BeatUnit
         <= bm_beatsPerMeasure * BeatUnit

\* C1 as stated: for every note set whose beat-counts sum to at most B and
\* whose spans do not overlap, the output's beat-counts sum to exactly B.
C1_AsStated ==
  (bm_result.done /\ InputBeats <= bm_beatsPerMeasure * BeatUnit /\ SpansDisjoint)
    => OutputBeats = bm_beatsPerMeasure * BeatUnit

\* C1, amended: for every note set whose notes start on the sixteenth grid,
\* lie inside the measure and do not overlap (the empty set included), the
\* notes and rests buildMeasureNotes returns have beat-counts that sum to
\* exactly B.
C1_MeasureFilled ==
  (bm_result.done /\ OnSixteenthGrid /\ SpansInMeasure /\ SpansDisjoint)
    => OutputBeats = bm_beatsPerMeasure * BeatUnit

\* A measure of two notes with a gap between them, filled with rests
C1_Witness ==
  /\ bm_result.done /\ OnSixteenthGrid /\ SpansInMeasure /\ SpansDisjoint
  /\ Len(bm_notes) = 2
  /\ Len(bm_result.notes) > 3
  /\ OutputBeats = bm_beatsPerMeasure * BeatUnit

\* What C10 says displayAccidental returns for da_pitch under
\* da_keyAccidentals
C10_Expected ==
  LET own == IF Len(da_pitch) = 3 THEN da_pitch[2] ELSE ""
      forced == da_keyAccidentals[da_pitch[1]]
  IN  IF own = forced THEN "null"
      ELSE IF own = "" THEN "n"
      ELSE own

\* C10: displayAccidental returns null when the pitch's accidental equals
\* the one the key forces for its letter, 'n' when the pitch has none but
\* the key forces one, and otherwise the pitch's own accidental.
C10_DisplayAccidental == da_result # "unset" => da_result = C10_Expected

\* F4 in D major is shown with a natural sign
C10_Witness ==
  /\ da_pitch = <<"F", "4">>
  /\ da_keyAccidentals = getKeyAccidentals("D")
  /\ da_result = "n"

-----------------------------------------------------------------------------
(* Properties of the editing session *)

\* The local notes of the measure the views show
LocalMeasure ==
  LET Here(n) == n.instrument_id = instrumentId /\ n.measure = currentMeasure
  IN  SelectSeq(scoreNotes, Here)

\* The beat-count of a stored note
BeatCount(n) == DUR_TO_BEATS(n.duration)

LocalUsed == SumSeq([i \in 1..Len(LocalMeasure) |-> BeatCount(LocalMeasure[i])])

\* C2: no two non-rest notes of one (instrument, measure) in the local note
\* set have overlapping beat spans [beat, beat + durationBeats).
C2_NoOverlap ==
  \A i, j \in 1..Len(scoreNotes) :
    LET a == scoreNotes[i]
        b == scoreNotes[j]
    IN  (/\ i # j /\ a.is_rest = 0 /\ b.is_rest = 0
         /\ a.instrument_id = b.instrument_id /\ a.measure = b.measure)
          => \/ a.beat + BeatCount(a) <= b.beat
             \/ b.beat + BeatCount(b) <= a.beat

\* What C3 says of a placement of duration d at beat: it is refused
C3_MustRefuse(beat, d) ==
  \/ LocalUsed + DUR_TO_BEATS(d) > beatsNum * BeatUnit
  \/ beat + DUR_TO_BEATS(d) - BeatUnit > beatsNum * BeatUnit

\* C3: a click that reaches _placeNote (no note at the ghost's beat) is
\* refused exactly when used + new > beatsPerMeasure or
\* beat + durationBeats - 1 > beatsPerMeasure; a refusal sends nothing and
\* leaves the local notes, the undo stack and the store as they are; a
\* placement that is not refused sends exactly one create request for it.
C3_RefusedExactly ==
  [][\A c \in EditorInputs :
       LET beat == xToBeat(c[1], c[2], beatsNum)
       IN  (/\ Idle /\ EditorClick(c[1], c[2], c[3], c[4])
            /\ NoteAtBeat(scoreNotes, instrumentId, currentMeasure, beat) = 0)
             => IF C3_MustRefuse(beat, c[3])
                THEN UNCHANGED <<inflight, scoreNotes, placedNotes, db_notes>>
                ELSE /\ UNCHANGED <<scoreNotes, placedNotes, db_notes>>
                     /\ \E m \in BagToSet(inflight') :
                          /\ m.op = "addNote" /\ m.stage = "req"
                          /\ m.body.beat = beat /\ m.body.duration = c[3]
                          /\ inflight' = inflight (+) SetToBag({m})]_vars

\* A refusal in a measure that holds 3.5 of its 4 beats
C3_Witness ==
  /\ borderColor = "#c44"
  /\ LocalUsed = 3 * BeatUnit + BeatUnit \div 2
  /\ inflight = EmptyBag

\* C6: when a delete request has failed, the handler that awaited it leaves
\* the local note set unchanged.
C6_FailedDeleteKeepsNotes ==
  [][\A m \in Pending :
       (/\ m.op = "deleteNote" /\ m.stage = "err"
        /\ inflight' = inflight (-) SetToBag({m}))
         => scoreNotes' = scoreNotes]_vars

-----------------------------------------------------------------------------
(* Properties of the store *)

\* The server answers request m in this step with response x
Answered(m, x) ==
  /\ m \in Pending /\ m.stage = "req"
  /\ x \in BagToSet(inflight') /\ x.stage \in {"ok", "err"}
  /\ inflight' = (inflight (-) SetToBag({m})) (+) SetToBag({x})

StoredIds(db) == {r.id : r \in db}

\* C5: a note leaves the store only in a step that grants a delete request
\* carrying the session id recorded when the note was created; a delete
\* request with another or no session id, or for an unknown id, is answered
\* with an error and leaves the store unchanged.
C5_SessionScopedDelete ==
  [][/\ \A r \in db_notes :
          r.id \notin StoredIds(db_notes')
            => \E m \in Pending, x \in BagToSet(inflight') :
                 /\ Answered(m, x) /\ x.stage = "ok"
                 /\ m.op = "deleteNote" /\ m.note.id = r.id
                 /\ m.body.session_id = r.session_id
                 /\ db_notes' = db_notes \ {r}
     /\ \A m \in Pending, x \in BagToSet(inflight') :
          (/\ Answered(m, x) /\ m.op = "deleteNote"
           /\ ~\E r \in db_notes :
                 r.id = m.note.id /\ r.session_id = m.body.session_id)
            => x.stage = "err" /\ db_notes' = db_notes]_vars

\* A delete request of a session that did not create the note was refused
\* and the note is still stored
C5_Witness ==
  \E m \in Pending, r \in db_notes :
    /\ m.op = "deleteNote" /\ m.stage = "err"
    /\ m.note.id = r.id
    /\ m.body.session_id = ThisSession /\ r.session_id = OtherSession

\* The instant a timestamp string denotes, in ticks
InstantOfCreatedAt(ts) == (ts[1] * SecsPerDay + ts[3]) * TicksPerSec
InstantOfIso(ts) == (ts[1] * SecsPerDay + ts[3]) * TicksPerSec + ts[5]

\* C9: GET /api/notes/since/w answers exactly the stored notes whose
\* created_at denotes an instant strictly later than the instant w denotes.
C9_SinceReturnsLater ==
  [][\A m \in Pending, x \in BagToSet(inflight') :
       (Answered(m, x) /\ m.op = "fetchNotesSince")
         => {x.rows[i].id : i \in 1..Len(x.rows)} =
              {r.id : r \in {q \in db_notes :
                 InstantOfCreatedAt(q.created_at) > InstantOfIso(m.since)}}]_vars

-----------------------------------------------------------------------------
(* Properties of the client kept in step with the store *)

\* C4: the local note set never contains two entries with the same id.
C4_NoDuplicateIds ==
  \A i, j \in 1..Len(scoreNotes) :
    i # j => scoreNotes[i].id # scoreNotes[j].id

\* C7: the step in which a handler receives the failure of its create,
\* update or poll request leaves the local notes, the undo stack and
\* lastFetchTime as they are, changes nothing in the store and sends no
\* request in place of the failed one.
C7_FailureLeavesState ==
  [][\A m \in Pending :
       (/\ m.stage = "err"
        /\ m.op \in {"addNote", "updateNote", "fetchNotesSince"}
        /\ CopiesIn(m, inflight') < CopiesIn(m, inflight))
         => /\ UNCHANGED <<scoreNotes, placedNotes, lastFetchTime, db_notes>>
            /\ inflight' = inflight (-) SetToBag({m})]_vars

\* The response to a create was lost after the store took the note, and
\* _placeNote has handled the failure: nothing is in flight and neither
\* the local notes nor the undo stack hold the note
C7_Witness ==
  /\ booted = "ready" /\ inflight = EmptyBag
  /\ \E r \in db_notes :
       /\ r.session_id = ThisSession
       /\ \A i \in 1..Len(scoreNotes) : scoreNotes[i].id # r.id
       /\ \A i \in 1..Len(placedNotes) : placedNotes[i].id # r.id

\* C8: once this client has done its initial fetch, every note in the store
\* is eventually in the local note set.
C8_EventuallyDelivered ==
  \A id \in 1..MaxSyncNotes :
    (booted = "ready" /\ id \in StoredIds(db_notes))
      ~> (\E i \in 1..Len(scoreNotes) : scoreNotes[i].id = id)

-----------------------------------------------------------------------------
(* Properties of the editor's pitch and pointer helpers *)

SharpOrder == <<"F", "C", "G", "D", "A", "E", "B">>
FlatOrder == <<"B", "E", "A", "D", "G", "C", "F">>
\* The major key with n sharps is SharpKeys[n + 1], with n flats FlatKeys[n]
SharpKeys == <<"C", "G", "D", "A", "E", "B", "F#", "C#">>
FlatKeys == <<"F", "Bb", "Eb", "Ab", "Db", "Gb", "Cb">>

\* The key map that forces sign on the first n letters of order and nothing
\* on the other letters
Forced(order, n, sign) ==
  [l \in Letters |-> IF \E i \in 1..n : order[i] = l THEN sign ELSE ""]

\* C11: for each of the 15 major keys with n sharps (n flats) the map of
\* getKeyAccidentals forces '#' ('b') on exactly the first n letters of
\* F,C,G,D,A,E,B (of B,E,A,D,G,C,F) and nothing on any other letter; no map
\* holds both a sharp and a flat; an unrecognized key name gives the empty
\* map.
C11_KeyAccidentals ==
  result.done =>
    LET m == result.keyAccidentals
    IN  /\ \A n \in 0..7 :
             args.key = SharpKeys[n + 1] => m = Forced(SharpOrder, n, "#")
        /\ \A n \in 1..7 :
             args.key = FlatKeys[n] => m = Forced(FlatOrder, n, "b")
        /\ ~((\E l \in Letters : m[l] = "#") /\ (\E l \in Letters : m[l] = "b"))
        /\ args.key \notin Range(SharpKeys) \cup Range(FlatKeys)
             => \A l \in Letters : m[l] = ""

\* E flat major: flats on B, E and A only
C11_Witness ==
  /\ result.done /\ args.key = "Eb"
  /\ {l \in Letters : result.keyAccidentals[l] = "b"} = {"B", "E", "A"}
  /\ \A l \in Letters : result.keyAccidentals[l] # "#"

ThreeClefs == {"treble", "alto", "bass"}

\* C12, as stated: for every representable pitch p, every clef (treble,
\* alto, bass) and every key signature,
\* linePosToPitch(pitchToLinePos(p, clef), clef, keyMap) = p.
C12_AsStated ==
  (result.done /\ args.clef \in ThreeClefs) => result.pitch = args.pitch

\* C12, amended: the round trip gives the letter and the octave of p with
\* the accidental that the key map forces on that letter (none when it
\* forces none); so it gives p itself exactly when p's own accidental is the
\* one the key forces on its letter.
C12_RoundTripInKey ==
  (result.done /\ args.clef \in ThreeClefs) =>
    LET p == args.pitch
        keyAcc == KeyAccOf(result.keyAccidentals, pitchLetter(p))
    IN  /\ result.pitch =
             IF keyAcc = "" THEN <<p[1], p[Len(p)]>>
             ELSE <<p[1], keyAcc, p[Len(p)]>>
        /\ (result.pitch = p) <=> (pitchAccidental(p) = keyAcc)

\* F#4 in D major on the alto clef comes back as F#4
C12_Witness ==
  /\ result.done /\ args.clef = "alto" /\ args.key = "D"
  /\ args.pitch = <<"F", "#", "4">> /\ result.pitch = <<"F", "#", "4">>

\* The clef's top-line pitch, as (letter index, octave)
TopLine(clef) ==
  CASE clef = "treble" -> <<3, 5>>     \* F5
    [] clef = "alto" -> <<4, 4>>       \* G4
    [] clef = "bass" -> <<5, 3>>       \* A3

\* The pitch k diatonic steps below the clef's top line, in the key
StepsBelowTop(k, clef, keyMap) ==
  LET abs == TopLine(clef)[1] + 7 * TopLine(clef)[2] - k
      letter == DIATONIC[(abs % 7) + 1]
  IN  IF keyMap[letter] = "" THEN <<letter, NumStr(abs \div 7)>>
      ELSE <<letter, keyMap[letter], NumStr(abs \div 7)>>

\* C13: a pointer exactly k half-line-steps below the top staff line (k an
\* integer, a half-line-step being half the line spacing) gets the pitch k
\* diatonic steps below the clef's top-line pitch with the key's forced
\* accidental, and the ghost note's snapped y is the pointer's y.
C13_PointerToPitch ==
  result.done =>
    LET stave == args.stave
        halfStep == (stave.botY - stave.topY) \div 8
    IN  \A k \in 0..16 :
          args.my = stave.topY + k * halfStep =>
            /\ result.pitch =
                 StepsBelowTop(k, args.clef, getKeyAccidentals(args.key))
            /\ result.y = args.my

\* C14: for every beats-per-measure B, every selected duration whose
\* beat-count d divides B and every beat b = 1 + k*d with b + d - 1 <= B,
\* _snapX(b) is noteAreaStart + (b-1)/B * noteAreaWidth and
\* _xToBeat(_snapX(b)) = b.
C14_SnapRoundTrip ==
  result.done =>
    LET d == DUR_TO_BEATS(args.selectedDuration)
        B == args.beatsNum * BeatUnit
        b == args.beat
        stave == args.stave
    IN  (/\ d # 0 /\ B % d = 0
         /\ (b - BeatUnit) % d = 0
         /\ b + d - BeatUnit <= B)
          => /\ (result.x - stave.noteStartX) * B
                  = (b - BeatUnit) * (stave.noteEndX - stave.noteStartX)
             /\ result.beat = b

\* Eighth notes in a 3-beat measure: beat 2.5 goes to its x and comes back
C14_Witness ==
  /\ result.done /\ args.beatsNum = 3 /\ args.selectedDuration = "eighth"
  /\ args.beat = (5 * BeatUnit) \div 2 /\ result.beat = args.beat
  /\ result.x > args.stave.noteStartX

\* C15: in the beginner view, for each of the 8 fixed pitches p and every
\* staff geometry (topY, lineSpacing > 0), yToPitch(pitchToY(p)) = p, and
\* yToPitch of any y is one of the 8 fixed pitches.
C15_BeginnerRoundTrip ==
  result.done =>
    /\ result.back = args.pitch
    /\ result.pitch \in Range(BEGINNER_PITCHES)

\* D4 comes back as D4, and a pointer far below the staff gets C4
C15_Witness ==
  /\ result.done /\ args.pitch = <<"D", "4">> /\ result.back = <<"D", "4">>
  /\ args.y = 60 /\ result.pitch = <<"C", "4">>

-----------------------------------------------------------------------------
(* Properties of the playback *)

\* 60 / tempo seconds, in ms
SecPerBeat(tempo) == (60 * SecUnit) \div tempo

\* The beat-count of a note's duration, a quarter for an unknown one
DurationBeats(note) ==
  IF note.duration \in DurationNames THEN DUR_TO_BEATS(note.duration)
  ELSE BeatUnit

\* The note of the score that a _scheduleNote call was made for
NoteOf(c) == pb_scoreData.notes[c.id]

\* C16: every note scheduled by play(scoreData, fromMeasure) starts
\* ((measure - fromMeasure) * beatsPerMeasure + (beat - 1)) * (60 / tempo)
\* after the playback start instant and sounds for
\* durationBeats * (60 / tempo).
C16_ScheduledTimes ==
  \A k \in 1..Len(scheduled) :
    LET c == scheduled[k]
        note == NoteOf(c)
        score == pb_scoreData.score
        beatOffset == (note.measure - startMeasure) * score.beatsNum * BeatUnit
                        + (note.beat - BeatUnit)
    IN  /\ (c.startTime - startTime) * BeatUnit
             = beatOffset * SecPerBeat(score.tempo)
        /\ c.duration * BeatUnit = DurationBeats(note) * SecPerBeat(score.tempo)

\* Tempo 100, 4 beats per measure, a quarter note at measure 2 beat 3,
\* started at measure 1: offset 3600 ms, duration 600 ms
C16_Witness ==
  /\ playing /\ startMeasure = 1 /\ pb_scoreData.score.tempo = 100
  /\ pb_scoreData.score.beatsNum = 4
  /\ \E k \in 1..Len(scheduled) :
       /\ NoteOf(scheduled[k]).measure = 2
       /\ NoteOf(scheduled[k]).beat = 3 * BeatUnit
       /\ NoteOf(scheduled[k]).duration = "quarter"
       /\ scheduled[k].startTime - startTime = 3600
       /\ scheduled[k].duration = 600

\* C17: play() schedules a note if and only if it is not a rest, its
\* measure is at or after the start measure, its instrument is not muted
\* and either no solo instrument is set or its instrument is the solo
\* instrument; each such note is scheduled exactly once and no other note is
\* scheduled.
C17_ScheduledExactly ==
  [][(~playing /\ playing') =>
       LET notes == pb_scoreData.notes
           wanted ==
             {i \in 1..Len(notes) :
                /\ notes[i].is_rest = 0
                /\ notes[i].measure >= startMeasure'
                /\ notes[i].instrument_id \notin mutedInstruments
                /\ (soloInstrument = "" \/ notes[i].instrument_id = soloInstrument)}
       IN  /\ {scheduled'[k].id : k \in 1..Len(scheduled')} = wanted
           /\ Len(scheduled') = Cardinality(wanted)
           /\ \A k \in 1..Len(scheduled') :
                /\ scheduled'[k].instrument_id = notes[scheduled'[k].id].instrument_id
                /\ scheduled'[k].pitch = notes[scheduled'[k].id].pitch]_vars

\* Playback started from measure 2 with the cello soloed: of a violin note
\* and a cello note, both in range and neither a rest, only the cello's is
\* scheduled
C17_Witness ==
  /\ playing /\ currentTime = startTime /\ soloInstrument = "cello"
  /\ mutedInstruments = {} /\ startMeasure = 2
  /\ Len(pb_scoreData.notes) = 2
  /\ pb_scoreData.notes[1].instrument_id = "violin1"
  /\ pb_scoreData.notes[1].measure = 2 /\ pb_scoreData.notes[1].is_rest = 0
  /\ pb_scoreData.notes[2].instrument_id = "cello"
  /\ Len(scheduled) = 1 /\ scheduled[1].id = 2

\* stop() has returned and play() has not been called since
Stopped == ~playing /\ lastTick # NoTick

\* C18: after stop() returns, in any state it is called from: playing is
\* false, every sound generator scheduled by the last play() has been told
\* to stop and the list of scheduled generators is empty, no progress frame
\* is pending, the last tick delivered is the terminal {stopped: true} one,
\* and this stays so until the next play().
C18_AfterStop ==
  Stopped =>
    /\ Range(NodesOf(scheduled)) \subseteq nodesStopped
    /\ scheduledNodes = <<>>
    /\ animFrame = 0 /\ frames = {}
    /\ lastTick = StoppedTick

\* Playback stopped by the user before its end, with notes scheduled
C18_Witness ==
  /\ Stopped /\ scheduled # <<>> /\ nodesStopped # {}
  /\ currentTime > startTime
  /\ currentTime - startTime < totalDuration

\* Playback has run to its end
Ended ==
  /\ ~playing /\ lastTick = StoppedTick /\ frames = {}
  /\ currentTime - startTime >= totalDuration

\* C19: after play(), if stop() is never called, frames keep firing and the
\* audio clock keeps advancing, playback eventually ends by itself: elapsed
\* time has reached the total duration, playing is false, the last tick
\* delivered is the terminal one and no frame is requested.
C19_EndsByItself == playing ~> Ended

\* Playback of the last measure has ended by itself
C19_Witness ==
  /\ Ended /\ startMeasure = total_measures /\ totalDuration > 0
  /\ scheduled # <<>>

\* C20: for every scheduled note the envelope's hold interval is never
\* negative: the end of the decay ramp (t0 + attack + decay) is not later
\* than the start of the release ramp (t0 + d - release).
C20_HoldNotNegative ==
  \A k \in 1..Len(scheduled) :
    scheduled[k].decayEnd <= scheduled[k].releaseStart

-----------------------------------------------------------------------------
(* Properties of the create, update and delete routes *)

\* C21: an update changes only pitch, beat, duration, accidental and dynamic
\* of the note its id addresses: the note's id, instrument, measure, rest
\* flag, session id and created_at and every other note stay as they are;
\* an update for an id that is not stored changes nothing and is answered
\* with an error.
C21_UpdateFrame ==
  [][\A m \in Pending, x \in BagToSet(inflight') :
       (Answered(m, x) /\ m.op = "updateNote")
         => IF m.note.id \in StoredIds(db_notes)
            THEN \E r \in db_notes, q \in db_notes' :
                   /\ r.id = m.note.id /\ q.id = r.id
                   /\ db_notes' \ {q} = db_notes \ {r}
                   /\ q.instrument_id = r.instrument_id
                   /\ q.measure = r.measure
                   /\ q.is_rest = r.is_rest
                   /\ q.session_id = r.session_id
                   /\ q.created_at = r.created_at
            ELSE /\ db_notes' = db_notes
                 /\ x.stage = "err" /\ result'.status = 404]_vars

\* One of two stored notes has taken the five columns of an update whose
\* body also named another instrument, measure and rest flag
C21_Witness ==
  /\ args.fn = "updateNote" /\ result.status = 200
  /\ \E r, o \in db_notes :
       /\ r.id = args.id /\ o.id # r.id
       /\ r.pitch = <<"F", "#", "5">> /\ r.beat = 3 * BeatUnit
       /\ r.duration = "eighth" /\ r.accidental = "#" /\ r.dynamic = "mf"
       /\ r.instrument_id = instrumentId /\ r.measure = currentMeasure
       /\ r.is_rest = 0
       /\ o.pitch = <<"G", "4">> /\ o.duration = "quarter"

\* C22: every stored note has its measure in [1, total_measures] after any
\* sequence of create, update and delete requests; a create request whose
\* measure is outside that range is answered with an error and leaves the
\* store unchanged.
C22_MeasureInRange ==
  /\ [](\A r \in db_notes : r.measure \in 1..total_measures)
  /\ [][\A m \in Pending, x \in BagToSet(inflight') :
         (/\ Answered(m, x) /\ m.op = "addNote"
          /\ m.body.measure \notin 1..total_measures)
           => x.stage = "err" /\ db_notes' = db_notes]_vars

\* An id no stored note has
UnknownId == 0

\* C23: the response to a delete request for a note that another session
\* owns is, in status and body, the response the same request gets for an
\* id that is not stored.
C23_SameDeleteResponse ==
  [][\A m \in Pending, x \in BagToSet(inflight') :
       (/\ Answered(m, x) /\ m.op = "deleteNote"
        /\ \E r \in db_notes :
              r.id = m.note.id /\ r.session_id # m.body.session_id)
         => result' = HttpResponse(DeleteNotes(db_notes, UnknownId,
                                               m.body.session_id))]_vars

\* This session's delete of a note of the other session was answered 404
\* with the text that also answers an unknown id
C23_Witness ==
  /\ args.fn = "deleteNote" /\ args.session_id = ThisSession
  /\ result.status = 404 /\ result.error = NotFoundOrNotOwned
  /\ \E r \in db_notes : r.id = args.id /\ r.session_id = OtherSession

\* C27: an update request for a stored note succeeds whatever session sends
\* it: the route compares no owner, so a session can modify a note it
\* could not delete.
C27_UpdateByAnySession ==
  [][\A m \in Pending, x \in BagToSet(inflight') :
       (/\ Answered(m, x) /\ m.op = "updateNote"
        /\ m.note.id \in StoredIds(db_notes))
         => /\ x.stage = "ok" /\ result'.status = 200
            /\ \E q \in db_notes' :
                 /\ q.id = m.note.id /\ q.pitch = m.body.pitch
                 /\ q.beat = m.body.beat /\ q.duration = m.body.duration]_vars

\* This session has modified a note of the other session that its delete
\* request would not remove
C27_Witness ==
  /\ args.fn = "updateNote" /\ args.session_id = ThisSession
  /\ result.status = 200
  /\ \E r \in db_notes :
       /\ r.id = args.id /\ r.session_id = OtherSession
       /\ r.duration = "eighth"
       /\ DeleteNotes(db_notes, r.id, ThisSession).status = 404

-----------------------------------------------------------------------------
(* Properties of the measuring of durations *)

\* The used capacity of the shown measure with an unknown duration counted
\* as a quarter
QuarterUsed ==
  SumSeq([i \in 1..Len(LocalMeasure) |-> InputNoteBeats(LocalMeasure[i])])

\* buildMeasureNotes and play() measure note n as a quarter
DrawnAndPlayedAsQuarter(n) ==
  /\ LET out == buildMeasureNotes(<<n>>, "treble", getKeyAccidentals("C"),
                                  beatsNum)
     IN  /\ Len(out) > 0 /\ out[Len(out)].duration = <<"q">>
         /\ SumSeq([i \in 1..Len(out) |-> VexBeats(out[i].duration)])
              = n.beat - BeatUnit + BeatUnit
  /\ LET calls == ScheduleFrom(1, 0, [score |-> SeedScore, notes |-> <<n>>],
                               n.measure, 0)
     IN  /\ Len(calls) = 1
         /\ calls[1].duration * BeatUnit = BeatUnit * SecPerBeat(SeedScore.tempo)

\* C24: a note whose duration is unknown is treated as a quarter (1 beat)
\* wherever it is measured: buildMeasureNotes draws it as a quarter, play()
\* sounds it for one beat, and the capacity sums of _placeNote and of the
\* beginner view's _onClick count it as 1 beat of used capacity.
C24_UnknownIsQuarter ==
  /\ [](\A i \in 1..Len(scoreNotes) :
          scoreNotes[i].duration \notin DurationNames
            => DrawnAndPlayedAsQuarter(scoreNotes[i]))
  /\ [][/\ \A c \in EditorInputs :
            LET beat == xToBeat(c[1], c[2], beatsNum)
                new == DUR_TO_BEATS(c[3])
            IN  (/\ Idle /\ EditorClick(c[1], c[2], c[3], c[4])
                 /\ NoteAtBeat(scoreNotes, instrumentId, currentMeasure, beat) = 0)
                  => (UNCHANGED inflight
                        <=> \/ QuarterUsed + new > beatsNum * BeatUnit
                            \/ beat + new - BeatUnit > beatsNum * BeatUnit)
        /\ \A b \in BeginnerBeatInputs, p \in BeginnerPitchInputs :
            (Idle /\ BeginnerClickEmpty(b, p))
              => (UNCHANGED inflight
                    <=> \/ QuarterUsed + BeatUnit > beatsNum * BeatUnit
                        \/ \E i \in 1..Len(LocalMeasure) :
                             Abs(LocalMeasure[i].beat - b * BeatUnit)
                               < 10 * Epsilon)]_vars

-----------------------------------------------------------------------------
(* Properties of the rest filling *)

RestBeats == {4 * BeatUnit, 2 * BeatUnit, BeatUnit, BeatUnit \div 2,
              BeatUnit \div 4}

\* The greedy longest-first decomposition of rem over RestBeats
RECURSIVE Greedy(_)
Greedy(rem) ==
  LET fit == {d \in RestBeats : d <= rem}
  IN  IF fit = {} THEN <<>>
      ELSE LET longest == CHOOSE d \in fit : \A e \in fit : e <= d
           IN  <<longest>> \o Greedy(rem - longest)

\* The beat-counts of the rests pushRests returned
EmittedBeats == [i \in 1..Len(result.rests) |-> VexBeats(result.rests[i].duration)]

\* C25: the rests pushRests emits for a gap are the greedy longest-first
\* decomposition over {whole, half, quarter, eighth, sixteenth}: each rest is
\* the longest duration not exceeding the beats still to fill, so the rest
\* durations do not increase within one gap; with 4 beats per measure and
\* one half note at beat 1, buildMeasureNotes returns exactly the half note
\* and one half rest.
C25_GreedyRests ==
  /\ result.done =>
       /\ EmittedBeats = Greedy(args.beats)
       /\ \A i \in 1..(Len(result.rests) - 1) :
            EmittedBeats[i] >= EmittedBeats[i + 1]
       /\ \A i \in 1..Len(result.rests) :
            /\ result.rests[i].keys = <<restPosition(args.clef)>>
            /\ result.rests[i].duration[Len(result.rests[i].duration)] = "r"
  /\ (bm_result.done /\ bm_notes = <<HalfNoteAtOne>> /\ bm_beatsPerMeasure = 4)
       => /\ Len(bm_result.notes) = 2
          /\ bm_result.notes[1].duration = <<"h">>
          /\ bm_result.notes[1].ensembleId = HalfNoteAtOne.id
          /\ bm_result.notes[2].duration = <<"h", "r">>
          /\ bm_result.notes[2].ensembleId = 0

\* A gap of 3.5 beats got a half, a quarter and an eighth rest, and the
\* measure of the half note was built
C25_Witness ==
  /\ result.done /\ args.beats = 3 * BeatUnit + BeatUnit \div 2
  /\ EmittedBeats = <<2 * BeatUnit, BeatUnit, BeatUnit \div 2>>
  /\ bm_result.done /\ bm_notes = <<HalfNoteAtOne>> /\ bm_beatsPerMeasure = 4

\* The beats of the gap that the emitted rests leave unfilled
Unfilled == args.beats - SumSeq(EmittedBeats)

\* C26, as stated: for every gap that buildMeasureNotes hands to pushRests,
\* pushRests terminates and the beats left unfilled by the emitted rests
\* are less than 0.001 beats.
C26_AsStated == result.done => Unfilled < Epsilon

\* C26, amended: for every gap that is a whole number of sixteenths,
\* pushRests terminates and the emitted rests fill the gap exactly.
C26_GridGapFilled ==
  (result.done /\ args.beats % (BeatUnit \div 4) = 0) => Unfilled = 0

\* A gap of 3.75 beats filled by four rests
C26_Witness ==
  /\ result.done /\ args.beats = 3 * BeatUnit + 3 * (BeatUnit \div 4)
  /\ Len(result.rests) = 4 /\ Unfilled = 0

-----------------------------------------------------------------------------
(* Properties of the measure's capacity *)

\* The beat-counts of the local notes of one (instrument, measure), summed
UsedIn(instrument, measure) ==
  LET here == NotesOf(scoreNotes, instrument, measure)
  IN  SumSeq([i \in 1..Len(here) |-> BeatCount(here[i])])

\* C28: for a single client working alone, in every reachable state -
\* several placement requests in flight included - the beat-counts of the
\* local notes of each (instrument, measure) sum to at most
\* beatsPerMeasure.
C28_CapacityKept ==
  \A n \in Range(scoreNotes) :
    UsedIn(n.instrument_id, n.measure) <= beatsNum * BeatUnit

\* C29: resizing a note by drag in the beginner view never leaves the
\* beat-counts of its (instrument, measure) summing to more than
\* beatsPerMeasure, nor the resized note with
\* beat + durationBeats - 1 > beatsPerMeasure.
C29_ResizeKeepsCapacity ==
  [][\A m \in Pending :
       (m.op = "updateNote" /\ m.stage = "ok" /\ ResizeDone(m))
         => \A i \in 1..Len(scoreNotes) :
              scoreNotes[i].id = m.note.id
                => LET n == scoreNotes'[i]
                       here == NotesOf(scoreNotes', n.instrument_id, n.measure)
                   IN  /\ SumSeq([k \in 1..Len(here) |-> BeatCount(here[k])])
                            <= beatsNum * BeatUnit
                       /\ n.beat + BeatCount(n) - BeatUnit
                            <= beatsNum * BeatUnit]_vars

-----------------------------------------------------------------------------
(* Properties of the playhead *)

\* The last call of onPlaybackTick reported progress
Progress(tick) == tick \notin {NoTick, StoppedTick}

\* C30: every progress tick of a playback started from measure s reports a
\* measure in [s, total_measures] and a beatFraction in [0, 1), and the
\* measure reported never decreases from one tick to the next within one
\* playback.
C30_PlayheadInRange ==
  /\ [](Progress(lastTick) =>
          /\ startMeasure \in 1..pb_scoreData.score.total_measures
          /\ lastTick.measure >= startMeasure
          /\ lastTick.measure <= pb_scoreData.score.total_measures
          /\ lastTick.beatFraction[1] >= 0
          /\ lastTick.beatFraction[1] < lastTick.beatFraction[2])
  /\ [][(Progress(lastTick) /\ Progress(lastTick'))
          => lastTick'.measure >= lastTick.measure]_vars

\* The playhead has moved into the measure after the start measure
C30_Witness ==
  /\ playing /\ Progress(lastTick)
  /\ lastTick.measure = startMeasure + 1
  /\ lastTick.beatFraction[1] > 0


-----------------------------------------------------------------------------
(* Properties of the measure shown and the measure edited *)

\* C31: in every reachable state the application's currentMeasure and the
\* editor's measure both lie in 1..total_measures, whatever the transport
\* buttons, the arrow keys, the editor's navigation, the placements and the
\* playback's progress callbacks have done
C31_MeasuresInRange ==
  /\ app_currentMeasure \in 1..total_measures
  /\ ed_measure \in 1..total_measures

\* Playback from the last measure has run to its end while the editor is
\* open on the last measure and a note placed there has been reported
C31_Witness ==
  /\ app_currentMeasure = total_measures /\ ed_measure = total_measures
  /\ isOpen /\ Stopped /\ startMeasure = total_measures
  /\ currentTime - startTime >= totalDuration
  /\ \E i \in 1..Len(scoreNotes) : scoreNotes[i].measure = total_measures

-----------------------------------------------------------------------------
(* Properties of the undo stack *)

IdsOf(notes) == {notes[i].id : i \in 1..Len(notes)}

\* C32: undo() takes the most recently placed note: when the delete
\* succeeds that note leaves the undo stack and the local note set and no
\* other note is touched; when it fails the stack and the local note set
\* are as they were before the call; with an empty stack nothing changes
\* and no request is sent; opening the editor or moving it to another
\* measure empties the stack
C32_UndoIsLifo ==
  /\ [][\A m \in Pending :
          UndoReturn(m) =>
            LET before == args.placedNotes
                last == before[Len(before)]
            IN  /\ m.note = last
                /\ IF m.stage = "ok"
                   THEN /\ placedNotes' = SubSeq(before, 1, Len(before) - 1)
                        /\ scoreNotes' = SpliceById(args.notes, last.id)
                        /\ last.id \notin IdsOf(scoreNotes')
                   ELSE /\ placedNotes' = before
                        /\ scoreNotes' = args.notes]_vars
  /\ [][(KeyUndo /\ placedNotes = <<>>) =>
          UNCHANGED <<placedNotes, scoreNotes, inflight, db_notes>>]_vars
  /\ [][(ed_measure' # ed_measure \/ (~isOpen /\ isOpen')) =>
          placedNotes' = <<>>]_vars

\* A failed undo has put the note back on a stack of two
C32_Witness ==
  /\ args.fn = "undo" /\ result.done /\ result.sent /\ ~result.ok
  /\ Len(placedNotes) = 2 /\ placedNotes = args.placedNotes

\* C33: every note on the undo stack is in the local note set
C33_StackInNotes == IdsOf(placedNotes) \subseteq IdsOf(scoreNotes)

-----------------------------------------------------------------------------
(* Properties of the progress loop *)

\* C34: at most one frame callback is pending, it is the one the engine
\* keeps in _animFrame and it is pending only while playing; play() and
\* stop() leave no frame request of before them pending, so no callback of
\* an earlier play() delivers a tick after them
C34_OneLoop ==
  /\ [](/\ Cardinality(frames) <= 1
        /\ frames \subseteq {animFrame}
        /\ (frames # {} => playing))
  /\ [][(\E m \in PlayFromInputs : PlayCall(m)) =>
          /\ frames \ {animFrame} = {}
          /\ frames' = {animFrame'}]_vars
  /\ [][StopCall => frames' = {}]_vars

\* play() was called while playing with a frame request pending, and the
\* loop it started has delivered a progress tick
C34_Witness ==
  /\ args.fn = "play" /\ args.playing /\ args.frames # {}
  /\ playing /\ Progress(lastTick) /\ Cardinality(frames) = 1

-----------------------------------------------------------------------------
(* Properties of the client's view of the other contributors' changes *)

StoredAs(id, d) == \E r \in db_notes : r.id = id /\ r.duration = d
ShownAs(id, d) ==
  \E i \in 1..Len(scoreNotes) :
    scoreNotes[i].id = id /\ scoreNotes[i].duration = d

\* C35: under fair polling a note its owner has deleted from the store
\* eventually leaves this client's local note set, and a duration that an
\* update has left in the store for good is eventually the duration this
\* client shows for the note
C35_ViewsConverge ==
  \A id \in 1..MaxSyncNotes :
    /\ (id \in IdsOf(scoreNotes) /\ id \notin StoredIds(db_notes))
         ~> (id \notin IdsOf(scoreNotes))
    /\ \A d \in OtherDurInputs :
         <>[](id \in IdsOf(scoreNotes) /\ StoredAs(id, d))
           => <>ShownAs(id, d)

-----------------------------------------------------------------------------
(* Properties of the beat under the pointer *)

\* The beats of the selected duration, and whether they divide the measure
SelectedBeats == JsOr(DUR_TO_BEATS(args.selectedDuration), BeatUnit)
DividesMeasure ==
  /\ SelectedBeats <= args.beatsNum * BeatUnit
  /\ (args.beatsNum * BeatUnit) % SelectedBeats = 0

\* C36: for every pointer x, every number of beats B and every selected
\* duration of d <= B beats that divides B, _xToBeat returns 1 + k * d for
\* a natural k, at least 1 and with 1 + k * d + d - 1 <= B, so that the
\* end-of-measure test of _placeNote does not refuse it
C36_BeatOnGrid ==
  (result.done /\ DividesMeasure) =>
    /\ \E k \in 0..(4 * MaxBeatsNum) :
         result.beat = BeatUnit + k * SelectedBeats
    /\ result.beat >= BeatUnit
    /\ result.beat + SelectedBeats - BeatUnit <= args.beatsNum * BeatUnit
    /\ ~(result.beat + SelectedBeats - BeatUnit > args.beatsNum * BeatUnit)

\* A pointer right of the staff with the half note selected: the last half
\* of the measure
C36_Witness ==
  /\ result.done /\ DividesMeasure
  /\ args.x > args.stave.noteEndX /\ args.selectedDuration = "half"
  /\ args.beatsNum = 4 /\ result.beat = 3 * BeatUnit

-----------------------------------------------------------------------------
(* Properties of the order of a measure's notes *)

Reordered(notes, p) == [i \in 1..Len(notes) |-> notes[p[i]]]

\* The ids of the StaveNotes made of notes, in the order returned
RECURSIVE EnsembleIds(_)
EnsembleIds(vexNotes) ==
  IF vexNotes = <<>> THEN <<>>
  ELSE (IF Head(vexNotes).ensembleId # 0
        THEN <<Head(vexNotes).ensembleId>> ELSE <<>>)
         \o EnsembleIds(Tail(vexNotes))

\* C37: for notes that start on pairwise different beats, buildMeasureNotes
\* returns the same sequence whatever the order the notes are handed over
\* in, and the notes in it are in ascending order of their beats
C37_OrderIndependent ==
  bm_result.done =>
    /\ \A p \in Orderings(Len(bm_notes)) :
         buildMeasureNotes(Reordered(bm_notes, p), bm_clef,
                           getKeyAccidentals("D"), bm_beatsPerMeasure)
           = bm_result.notes
    /\ LET ids == EnsembleIds(bm_result.notes)
       IN  \A i, j \in 1..Len(ids) : i < j => ids[i] < ids[j]

\* Three notes handed over in descending order of their beats
C37_Witness ==
  /\ bm_result.done /\ Len(bm_notes) = MaxOrderNotes
  /\ \A i \in 1..(Len(bm_notes) - 1) : bm_notes[i].beat > bm_notes[i + 1].beat
  /\ \A i \in 1..Len(bm_notes) : bm_notes[i].is_rest = 0
  /\ Len(EnsembleIds(bm_result.notes)) = MaxOrderNotes

-----------------------------------------------------------------------------
(* Properties of the accidental of a placed note *)

\* The key signature alters the letter of the ghost's pitch
KeyForcesGhost == KeyAccOf(result.keyAccidentals, result.ghost[1]) # ""

\* C38: for every key signature, clef and staff position the pitch that
\* linePosToPitch returns needs no accidental drawn; a note placed with
\* the natural override on a letter the key alters is stored with a pitch
\* that has no accidental and is drawn with a natural sign
C38_KeyPitchNeedsNoSign ==
  result.done =>
    /\ result.ghostShown = "null"
    /\ (args.selectedAccidental = "natural" /\ ~args.restMode
          /\ KeyForcesGhost) =>
         /\ result.saved.pitch = <<result.ghost[1], result.ghost[3]>>
         /\ pitchAccidental(result.saved.pitch) = ""
         /\ result.savedShown = "n"

\* F natural placed on the top line of the treble staff in D major
C38_Witness ==
  /\ result.done /\ args.key = "D" /\ args.clef = "treble"
  /\ args.selectedAccidental = "natural" /\ ~args.restMode
  /\ result.ghost = <<"F", "#", "5">> /\ result.saved.pitch = <<"F", "5">>
  /\ result.savedShown = "n"

-----------------------------------------------------------------------------
(* Properties of the generators of a playback *)

\* C39: from the return of play() to stop() or the next play(), no step
\* changes the _scheduleNote calls made or the oscillators kept in
\* scheduledNodes: not a note pushed to or spliced out of the local note
\* set, not a mute or solo toggle
C39_GeneratorsFixed ==
  [][(playing /\ playing') =>
       UNCHANGED <<scheduled, scheduledNodes, nodesStopped>>]_vars

\* While the notes scheduled still play, the local note set holds none of
\* them any more and their instrument is muted
C39_Witness ==
  /\ playing /\ scheduledNodes # <<>>
  /\ pb_scoreData.notes = <<>>
  /\ \A i \in 1..Len(scheduled) :
       scheduled[i].instrument_id \in mutedInstruments

-----------------------------------------------------------------------------
(* Properties of the note count *)

=============================================================================
